---- MODULE Spec2Model ----
(***************************************************************************)
(* Export::ApiWrap (export/export_api_wrap.cpp): the orchestrator of the   *)
(* account-data export.  Every RPC done/fail handler and every public      *)
(* request* method is one action; a handler is translated together with    *)
(* every call it makes synchronously (loadNext* -> processFileLoad ->      *)
(* loadFile -> loadFilePart, filePartDone -> done -> loadNext* -> ...).    *)
(*                                                                         *)
(* Optional values (nullptr, base::none) are sequences of length 0 or 1.   *)
(* Byte strings and paths are tokens: 0 is the empty string.  The events   *)
(* variable is the log of what the handler that ran last did, in order:    *)
(* callbacks invoked, requests sent, errors fired, bytes written; _errors   *)
(* is the set of the errors fired on the error stream so far.              *)
(***************************************************************************)
EXTENDS Integers, Sequences, FiniteSets, TLC

\* ---- program constants ------------------------------------------------
kFileChunkSize == 131072
kFileRequestsCount == 2
kLocationCacheSize == 100000
kDialogsCap == 11

\* ---- bounds of the model ----------------------------------------------
\* ids of the photos / messages / dialogs the server holds: 1..MaxItems
MaxItems == 2
\* the server never serves bytes at or after chunk number MaxChunks
MaxChunks == 2
\* the limits of the caches put under test: 0..MaxLimit
MaxLimit == 2
\* the number of saves made to a cache under test
MaxSaves == 3
\* the longest dialog list given to fillDialogsPaths on its own
MaxDialogs == 12
\* the number of Loader objects created by the emoji-set manager
MaxLoaders == 3

VARIABLES _settings, _takeoutId, _userpicsProcess, _dialogsProcess,
          _fileProcess, _fileCache, _mtp, _errors, fatal, events

\* The emoji-set manager (chat_helpers/emoji_sets_manager.cpp): the global
\* loader (0 is nullptr), the Loader objects created so far, the tasks given
\* to crl::async and not yet run, and the queue of the main thread.
VARIABLES GlobalLoader, loaders, asyncTasks, mainQueue

emojiVars == <<GlobalLoader, loaders, asyncTasks, mainQueue>>

vars == <<_settings, _takeoutId, _userpicsProcess, _dialogsProcess,
          _fileProcess, _fileCache, _mtp, _errors, fatal, events, emojiVars>>

None == <<>>
Some(x) == <<x>>
Has(o) == o # <<>>

RECURSIVE Reverse(_)
Reverse(s) == IF s = <<>> THEN <<>> ELSE Append(Reverse(Tail(s)), Head(s))

Last(s) == s[Len(s)]

\* ---- input domains ----------------------------------------------------
DialogTypes == {"Personal", "PrivateGroup"}
MediaTypes == {"Photo", "File"}

\* Settings snapshots given to startExport.
SettingsSet ==
    { [types |-> {"Personal"}, fullChats |-> {},
       media |-> [types |-> {"Photo"}, sizeLimit |-> 2 * kFileChunkSize],
       path |-> 1],
      [types |-> DialogTypes, fullChats |-> {"PrivateGroup"},
       media |-> [types |-> {}, sizeLimit |-> 2 * kFileChunkSize],
       path |-> 1] }

\* Data::FileLocation: dcId 0 is "no location" (operator bool).
Location(dc, id) == [dcId |-> dc, variant |-> "document", id |-> id, local_id |-> 0]

\* Data::File after parsing: relativePath empty, no skip reason.
File(loc, content, size) ==
    [location |-> loc, content |-> content, size |-> size,
     suggestedPath |-> loc.id + 1, relativePath |-> 0, skipReason |-> "None"]

\* The files the parsers can produce for a photo or a message: no file at all
\* (static empty File of Media::file, fileLocationUnavailable), a cached photo
\* size with inline bytes (ParseMaxImage: size = content.size()), a remote
\* file of known size (two chunks) or of unknown size.
WireFiles ==
    { File(Location(0, 0), 0, 0),
      File(Location(1, 1), 1, 1),
      File(Location(1, 1), 0, kFileChunkSize + 1),
      File(Location(1, 2), 0, 0) }

\* A file is resolved: it has a path or a skip reason.
Resolved(file) == file.relativePath # 0 \/ file.skipReason # "None"
AllResolved(list) == \A i \in 1..Len(list) : Resolved(list[i].file)

\* ---- LoadedFileCache --------------------------------------------------
\* Bitwise or of two non-negative integers.
RECURSIVE BitOr(_, _)
BitOr(a, b) ==
    IF a = 0 THEN b
    ELSE IF b = 0 THEN a
    ELSE (IF a % 2 = 1 \/ b % 2 = 1 THEN 1 ELSE 0) + 2 * BitOr(a \div 2, b \div 2)

\* 1 << 24, the position of the variant tag in LocationKey::type.
kVariantShift == 16777216

\* The tag ComputeLocationKey gives each variant of the location.
VariantTag(v) ==
    CASE v = "file" -> 1 [] v = "document" -> 2 [] v = "secure" -> 3 [] v = "encrypted" -> 4

\* ComputeLocationKey without the variant tag.
ComputeLocationKey_NoTag(value) ==
    [type |-> [hi |-> IF value.variant = "file" THEN value.local_id ELSE 0,
               lo |-> value.dcId],
     id |-> value.id]

\* ComputeLocationKey for dcId >= 0.  The uint64 type is kept as its two
\* 32-bit words: lo = dcId | (tag << 24), hi = uint32(local_id) for a plain
\* file location and 0 for the others; id is volume_id or id.
ComputeLocationKey(value) ==
    [type |-> [hi |-> IF value.variant = "file" THEN value.local_id ELSE 0,
               lo |-> BitOr(value.dcId, VariantTag(value.variant) * kVariantShift)],
     id |-> value.id]

\* save evicting the key just pushed instead of the oldest one.
CacheSave_EvictsNewest(cache, location, relativePath) ==
    LET key == ComputeLocationKey(location)
        map1 == [k \in DOMAIN cache.map \cup {key} |->
                    IF k = key THEN relativePath ELSE cache.map[k]]
        list1 == Append(cache.list, key)
    IN  IF Len(list1) > cache.limit
        THEN [cache EXCEPT !.list = cache.list,
                           !.map = [k \in DOMAIN map1 \ {key} |-> map1[k]]]
        ELSE [cache EXCEPT !.list = list1, !.map = map1]

\* save without the eviction.
CacheSave_NoEvict(cache, location, relativePath) ==
    LET key == ComputeLocationKey(location)
    IN  [cache EXCEPT !.list = Append(@, key),
                      !.map = [k \in DOMAIN cache.map \cup {key} |->
                                  IF k = key THEN relativePath ELSE cache.map[k]]]

\* save keeping the mapping of an evicted key that is still in the queue.
CacheSave_KeepsResaved(cache, location, relativePath) ==
    LET key == ComputeLocationKey(location)
        map1 == [k \in DOMAIN cache.map \cup {key} |->
                    IF k = key THEN relativePath ELSE cache.map[k]]
        list1 == Append(cache.list, key)
        kept == {Tail(list1)[i] : i \in 1..(Len(list1) - 1)}
    IN  IF Len(list1) > cache.limit
        THEN [cache EXCEPT !.list = Tail(list1),
                           !.map = [k \in DOMAIN map1 \ ({Head(list1)} \ kept) |-> map1[k]]]
        ELSE [cache EXCEPT !.list = list1, !.map = map1]

\* cache = [limit, map (function key -> path), list (deque of keys)]
CacheSave(cache, location, relativePath) ==
    LET key == ComputeLocationKey(location)
        map1 == [k \in DOMAIN cache.map \cup {key} |->
                    IF k = key THEN relativePath ELSE cache.map[k]]
        list1 == Append(cache.list, key)
    IN  IF Len(list1) > cache.limit
        THEN [cache EXCEPT !.list = Tail(list1),
                           !.map = [k \in DOMAIN map1 \ {Head(list1)} |-> map1[k]]]
        ELSE [cache EXCEPT !.list = list1, !.map = map1]

CacheFind(cache, location) ==
    LET key == ComputeLocationKey(location)
    IN  IF key \in DOMAIN cache.map THEN Some(cache.map[key]) ELSE None

\* ---- peer ids ----------------------------------------------------------
\* uint32(x) of an int32 x, as its two 16-bit halves.
Uint32(x) == [hi |-> (x \div 65536) % 65536, lo |-> x % 65536]

\* int32(u) of a uint32 u.
Int32(u) == (IF u.hi >= 32768 THEN u.hi - 65536 ELSE u.hi) * 65536 + u.lo

\* kUserPeerIdShift and kChatPeerIdShift, 1 << 32 and 2 << 32, as the upper
\* 32-bit word of the PeerId.
kUserPeerIdShift == 1
kChatPeerIdShift == 2

\* UserPeerId with the shift of the chats.
UserPeerId_ChatShift(userId) == [hi |-> kChatPeerIdShift, lo |-> Uint32(userId)]

\* Data::UserPeerId: a PeerId is kept as its upper and lower 32-bit words.
UserPeerId(userId) == [hi |-> kUserPeerIdShift, lo |-> Uint32(userId)]

\* Data::ChatPeerId
ChatPeerId(chatId) == [hi |-> kChatPeerIdShift, lo |-> Uint32(chatId)]

\* Data::BarePeerId
BarePeerId(peerId) == Int32(peerId.lo)

\* ---- the handler state ------------------------------------------------
State ==
    [settings |-> _settings, takeoutId |-> _takeoutId, up |-> _userpicsProcess,
     dp |-> _dialogsProcess, fp |-> _fileProcess, cache |-> _fileCache,
     net |-> _mtp, errors |-> _errors, fatal |-> fatal, events |-> <<>>]

\* The handler has run.  A program terminated by a failed check or a crash
\* has no state left: only what it did before is kept.
Commit(S) ==
    /\ fatal' = S.fatal
    /\ events' = S.events
    /\ _errors' = S.errors
    /\ IF S.fatal = ""
       THEN /\ _settings' = S.settings
            /\ _takeoutId' = S.takeoutId
            /\ _userpicsProcess' = S.up
            /\ _dialogsProcess' = S.dp
            /\ _fileProcess' = S.fp
            /\ _fileCache' = S.cache
            /\ _mtp' = S.net
            /\ UNCHANGED emojiVars
       ELSE UNCHANGED <<emojiVars, _settings, _takeoutId, _userpicsProcess, _dialogsProcess,
                        _fileProcess, _fileCache, _mtp>>

\* An event of the running handler, with whether a file process exists now.
Emit(S, e, arg) ==
    [S EXCEPT !.events = Append(@, [e |-> e, arg |-> arg, fp |-> Has(S.fp)])]

\* Expects / Assert / Unexpected: a failed check terminates the program.
Expects(S, cond, what) ==
    IF S.fatal = "" /\ ~cond THEN [S EXCEPT !.fatal = what] ELSE S

\* ApiWrap::error: fire the error on the _errors stream.
Error(S, text) ==
    IF S.fatal # "" THEN S
    ELSE Emit([S EXCEPT !.errors = @ \cup {text}], "error", text)

\* ---- requests ---------------------------------------------------------
\* _mtp.request(...).send(): the request is outstanding until its done or
\* fail handler runs.  arg is the tuple of the arguments of the request that
\* the server's answer depends on; takeout is the id MTPInvokeWithTakeout wraps the
\* request with, None for a request sent unwrapped.
Send(S, kind, arg, takeout) ==
    Emit([S EXCEPT !.net = @ \cup {[kind |-> kind, arg |-> arg, takeout |-> takeout]}],
         "request", kind)

\* mainRequest without the check of the session id.
MainRequest_Unchecked(S, kind, arg) ==
    IF S.fatal # "" THEN S ELSE Send(S, kind, arg, S.takeoutId)

\* ApiWrap::mainRequest
MainRequest(S, kind, arg) ==
    LET S1 == Expects(S, Has(S.takeoutId), "mainRequest: _takeoutId.has_value()")
    IN  IF S1.fatal # "" THEN S1 ELSE Send(S1, kind, arg, S1.takeoutId)

\* ApiWrap::fileRequest
FileRequest(S, location, offset) ==
    LET S1 == Expects(S, location.dcId # 0, "fileRequest: location.dcId != 0")
        S2 == Expects(S1, Has(S1.takeoutId), "fileRequest: _takeoutId.has_value()")
    IN  IF S2.fatal # "" THEN S2 ELSE Send(S2, "upload_GetFile", <<offset>>, S2.takeoutId)

\* ---- file transfer ----------------------------------------------------
\* Output::File::PrepareRelativePath (export_output_file.cpp): a non-empty
\* path in the export folder derived from the suggested one.
PrepareRelativePath(path, suggestedPath) == path + suggestedPath

\* ApiWrap::prepareFileProcess; file is the content written to the output.
PrepareFileProcess(S, file) ==
    [file |-> <<>>,
     relativePath |-> PrepareRelativePath(S.settings[1].path, file.suggestedPath),
     done |-> "none", location |-> file.location, offset |-> 0,
     size |-> file.size, requests |-> <<>>]

\* loadFilePart asking for the next three chunks at once, whatever the queue
\* holds.
LoadFilePart_NoLimit(S) ==
    IF S.fatal # "" THEN S
    ELSE IF \/ ~Has(S.fp)
            \/ (S.fp[1].size > 0 /\ S.fp[1].offset >= S.fp[1].size)
    THEN S
    ELSE LET o == S.fp[1].offset
             S1 == [S EXCEPT !.fp[1].requests =
                        @ \o <<[offset |-> o, bytes |-> 0],
                               [offset |-> o + kFileChunkSize, bytes |-> 0],
                               [offset |-> o + 2 * kFileChunkSize, bytes |-> 0]>>]
             S2 == FileRequest(S1, S1.fp[1].location, o)
             S3 == FileRequest(S2, S1.fp[1].location, o + kFileChunkSize)
             S4 == FileRequest(S3, S1.fp[1].location, o + 2 * kFileChunkSize)
         IN  IF S4.fatal # "" THEN S4
             ELSE [S4 EXCEPT !.fp[1].offset = @ + 3 * kFileChunkSize]

\* loadFilePart with the offset advanced by two chunks.
LoadFilePart_SkipsChunk(S) ==
    IF S.fatal # "" THEN S
    ELSE IF \/ ~Has(S.fp)
            \/ Len(S.fp[1].requests) >= kFileRequestsCount
            \/ (S.fp[1].size > 0 /\ S.fp[1].offset >= S.fp[1].size)
    THEN S
    ELSE LET offset == S.fp[1].offset
             S1 == [S EXCEPT !.fp[1].requests = Append(@, [offset |-> offset, bytes |-> 0])]
             S2 == FileRequest(S1, S1.fp[1].location, S1.fp[1].offset)
         IN  IF S2.fatal # "" THEN S2
             ELSE [S2 EXCEPT !.fp[1].offset = @ + 2 * kFileChunkSize]

\* loadFilePart with the commented-out continuation enabled: a transfer of
\* known size asks for the next part at once while the queue has room.
LoadFilePart_Pipelined(S) ==
    IF S.fatal # "" THEN S
    ELSE IF \/ ~Has(S.fp)
            \/ Len(S.fp[1].requests) >= kFileRequestsCount
            \/ (S.fp[1].size > 0 /\ S.fp[1].offset >= S.fp[1].size)
    THEN S
    ELSE LET offset == S.fp[1].offset
             S1 == [S EXCEPT !.fp[1].requests = Append(@, [offset |-> offset, bytes |-> 0])]
             S2 == FileRequest(S1, S1.fp[1].location, S1.fp[1].offset)
             S3 == [S2 EXCEPT !.fp[1].offset = @ + kFileChunkSize]
         IN  IF S2.fatal # "" THEN S2
             ELSE IF S3.fp[1].size > S3.fp[1].offset
             THEN [FileRequest([S3 EXCEPT !.fp[1].requests =
                                   Append(@, [offset |-> S3.fp[1].offset, bytes |-> 0])],
                               S3.fp[1].location, S3.fp[1].offset)
                   EXCEPT !.fp[1].offset = @ + kFileChunkSize]
             ELSE S3

\* loadFilePart advancing the offset before it sends the request.
LoadFilePart_AdvancesFirst(S) ==
    IF S.fatal # "" THEN S
    ELSE IF \/ ~Has(S.fp)
            \/ Len(S.fp[1].requests) >= kFileRequestsCount
            \/ (S.fp[1].size > 0 /\ S.fp[1].offset >= S.fp[1].size)
    THEN S
    ELSE LET offset == S.fp[1].offset
             S1 == [S EXCEPT !.fp[1].requests = Append(@, [offset |-> offset, bytes |-> 0]),
                             !.fp[1].offset = @ + kFileChunkSize]
         IN  FileRequest(S1, S1.fp[1].location, S1.fp[1].offset)

\* ApiWrap::loadFilePart
LoadFilePart(S) ==
    IF S.fatal # "" THEN S
    ELSE IF \/ ~Has(S.fp)
            \/ Len(S.fp[1].requests) >= kFileRequestsCount
            \/ (S.fp[1].size > 0 /\ S.fp[1].offset >= S.fp[1].size)
    THEN S
    ELSE LET offset == S.fp[1].offset
             S1 == [S EXCEPT !.fp[1].requests = Append(@, [offset |-> offset, bytes |-> 0])]
             S2 == FileRequest(S1, S1.fp[1].location, S1.fp[1].offset)
         IN  IF S2.fatal # "" THEN S2
             ELSE [S2 EXCEPT !.fp[1].offset = @ + kFileChunkSize]

\* ApiWrap::loadFile
LoadFile(S, file, done) ==
    LET S1 == Expects(S, ~Has(S.fp), "loadFile: _fileProcess == nullptr")
        S2 == Expects(S1, file.location.dcId # 0, "loadFile: file.location.dcId != 0")
    IN  IF S2.fatal # "" THEN S2
        ELSE LoadFilePart(
                [Emit(S2, "loadFile", 0) EXCEPT
                    !.fp = Some([PrepareFileProcess(S2, file) EXCEPT !.done = done])])

\* ApiWrap::writePreloadedFile.  The content is written through
\* _fileProcess->file, not through the process just prepared: with no active
\* file process this dereferences a null pointer, and w says what the build
\* does then ("Crash", or the write "returns" Success or Fail); with an
\* active one the bytes land in the active transfer's file.
\* Returns [S, file, ret].
WritePreloadedFile(S, file, w) ==
    LET S1 == Expects(S, Has(S.settings), "writePreloadedFile: _settings != nullptr")
        path == CacheFind(S1.cache, file.location)
        process == PrepareFileProcess(S1, file)
        SP == Emit(S1, "prepareFileProcess", process.relativePath)
        ok == IF w = "Fail" THEN FALSE ELSE TRUE
    IN  IF S1.fatal # "" THEN [S |-> S1, file |-> file, ret |-> FALSE]
        ELSE IF Has(path)
        THEN [S |-> S1, file |-> [file EXCEPT !.relativePath = path[1]], ret |-> TRUE]
        ELSE IF file.content # 0
        THEN IF ~Has(S1.fp) /\ w = "Crash"
             THEN [S |-> [SP EXCEPT !.fatal = "writePreloadedFile: null _fileProcess"],
                   file |-> file, ret |-> FALSE]
             ELSE IF ok
             THEN LET S2 == IF Has(SP.fp)
                            THEN [SP EXCEPT !.fp[1].file = Append(@, file.content)]
                            ELSE SP
                      S3 == Emit(S2, "writeBlock", file.content)
                      f1 == [file EXCEPT !.relativePath = process.relativePath]
                  IN  [S |-> Emit([S3 EXCEPT !.cache = CacheSave(@, f1.location, f1.relativePath)],
                                  "save", f1.relativePath),
                       file |-> f1, ret |-> TRUE]
             ELSE [S |-> Error(SP, "Could not write '%1'."),
                   file |-> file, ret |-> FALSE]
        ELSE [S |-> S1, file |-> file, ret |-> FALSE]

\* The MediaSettings::Type of the message a file belongs to; Photo when
\* processFileLoad is given no message.
MediaTypeOf(message) == IF Has(message) THEN message[1].mediaType ELSE "Photo"

\* The element of a set of one element.
TheOne(set) == CHOOSE x \in set : TRUE

\* What processFileLoad did with a file, put on the log when it returns: the
\* file as it was given, what the cache held for its location then, the file
\* as it is left, the value returned, and whether the cache is as it was.
Processed(S, r, message) ==
    IF r.S.fatal # "" THEN r.S
    ELSE Emit(r.S, "processFileLoad",
              [location |-> r.file.location, content |-> r.file.content,
               size |-> r.file.size, cached |-> CacheFind(S.cache, r.file.location),
               relativePath |-> r.file.relativePath, skipReason |-> r.file.skipReason,
               ready |-> r.ret, cacheSame |-> r.S.cache = S.cache,
               type |-> MediaTypeOf(message),
               types |-> r.S.settings[1].media.types,
               sizeLimit |-> r.S.settings[1].media.sizeLimit])

\* processFileLoad without the call of writePreloadedFile: the cache is not
\* looked at and inline content is not used.
ProcessFileLoad_NoPreloaded(S, file, done, message, w) ==
    LET r0 ==
          IF file.relativePath # 0 THEN [S |-> S, file |-> file, ret |-> TRUE]
          ELSE IF file.location.dcId = 0
          THEN [S |-> S, file |-> [file EXCEPT !.skipReason = "Unavailable"], ret |-> TRUE]
          ELSE LET type == MediaTypeOf(message)
               IN  IF type \notin S.settings[1].media.types
                   THEN [S |-> S, file |-> [file EXCEPT !.skipReason = "FileType"], ret |-> TRUE]
                   ELSE IF file.size >= S.settings[1].media.sizeLimit
                   THEN [S |-> S, file |-> [file EXCEPT !.skipReason = "FileSize"], ret |-> TRUE]
                   ELSE [S |-> LoadFile(S, file, done), file |-> file, ret |-> FALSE]
    IN  IF S.fatal # "" THEN [S |-> S, file |-> file, ret |-> FALSE]
        ELSE TheOne({[r EXCEPT !.S = Processed(S, r, message)] : r \in {r0}})

\* processFileLoad reporting a file whose download has just started as ready.
ProcessFileLoad_NoWait(S, file, done, message, w) ==
    LET r0 ==
          IF file.relativePath # 0 THEN [S |-> S, file |-> file, ret |-> TRUE]
          ELSE IF file.location.dcId = 0
          THEN [S |-> S, file |-> [file EXCEPT !.skipReason = "Unavailable"], ret |-> TRUE]
          ELSE LET r == WritePreloadedFile(S, file, w)
                   type == MediaTypeOf(message)
               IN  IF r.S.fatal # "" \/ r.ret THEN r
                   ELSE IF type \notin r.S.settings[1].media.types
                   THEN [S |-> r.S, file |-> [r.file EXCEPT !.skipReason = "FileType"], ret |-> TRUE]
                   ELSE IF r.file.size >= r.S.settings[1].media.sizeLimit
                   THEN [S |-> r.S, file |-> [r.file EXCEPT !.skipReason = "FileSize"], ret |-> TRUE]
                   ELSE [S |-> LoadFile(r.S, r.file, done), file |-> r.file, ret |-> TRUE]
    IN  IF S.fatal # "" THEN [S |-> S, file |-> file, ret |-> FALSE]
        ELSE TheOne({[r EXCEPT !.S = Processed(S, r, message)] : r \in {r0}})

\* ApiWrap::processFileLoad.  Returns [S, file, ret]: ret is "ready".
ProcessFileLoad(S, file, done, message, w) ==
    LET r0 ==
          IF file.relativePath # 0 THEN [S |-> S, file |-> file, ret |-> TRUE]
          ELSE IF file.location.dcId = 0
          THEN [S |-> S, file |-> [file EXCEPT !.skipReason = "Unavailable"], ret |-> TRUE]
          ELSE LET r == WritePreloadedFile(S, file, w)
                   type == MediaTypeOf(message)
               IN  IF r.S.fatal # "" \/ r.ret THEN r
                   ELSE IF type \notin r.S.settings[1].media.types
                   THEN [S |-> r.S, file |-> [r.file EXCEPT !.skipReason = "FileType"], ret |-> TRUE]
                   ELSE IF r.file.size >= r.S.settings[1].media.sizeLimit
                   THEN [S |-> r.S, file |-> [r.file EXCEPT !.skipReason = "FileSize"], ret |-> TRUE]
                   ELSE [S |-> LoadFile(r.S, r.file, done), file |-> r.file, ret |-> FALSE]
    IN  IF S.fatal # "" THEN [S |-> S, file |-> file, ret |-> FALSE]
        ELSE TheOne({[r EXCEPT !.S = Processed(S, r, message)] : r \in {r0}})

\* ---- userpics ---------------------------------------------------------
\* finishUserpics calling finish without base::take: the process stays.
FinishUserpics_KeepsProcess(S) ==
    LET S1 == Expects(S, Has(S.up), "finishUserpics: _userpicsProcess != nullptr")
    IN  IF S1.fatal # "" THEN S1
        ELSE Emit(S1, "userpics.finish", [started |-> S1.up[1].started])

\* ApiWrap::finishUserpics
FinishUserpics(S) ==
    LET S1 == Expects(S, Has(S.up), "finishUserpics: _userpicsProcess != nullptr")
    IN  IF S1.fatal # "" THEN S1
        ELSE Emit([S1 EXCEPT !.up = None], "userpics.finish",
                  [started |-> S1.up[1].started])

\* ApiWrap::loadNextUserpic; w[i] is the outcome of the preloaded write of
\* the i-th file of the slice.
RECURSIVE LoadNextUserpic(_, _)
LoadNextUserpic(S, w) ==
    LET S1 == Expects(S, Has(S.up), "loadNextUserpic: _userpicsProcess != nullptr")
        S2 == Expects(S1, S1.fatal # "" \/ Has(S1.up[1].slice), "loadNextUserpic: slice.has_value()")
    IN  IF S2.fatal # "" THEN S2
        ELSE
        LET list == S2.up[1].slice[1]
            index == S2.up[1].fileIndex + 1
            S3 == [S2 EXCEPT !.up[1].fileIndex = index]
        IN  IF index < Len(list)
            THEN TheOne({
                    IF r.S.fatal # "" THEN r.S
                    ELSE IF ~r.ret
                    THEN [r.S EXCEPT !.up[1].slice[1][index + 1].file = r.file]
                    ELSE LoadNextUserpic(
                            [r.S EXCEPT !.up[1].slice[1][index + 1].file = r.file], w) :
                    r \in {ProcessFileLoad(S3, list[index + 1].file, "loadUserpicDone",
                                           None, w[index + 1])} })
            ELSE LET lastUserpicId == IF list = <<>> THEN None ELSE Some(Last(list).id)
                     S4 == Emit([S3 EXCEPT !.up[1].slice = None], "userpics.handleSlice",
                                [count |-> Len(list), resolved |-> AllResolved(list),
                                 started |-> S3.up[1].started])
                 IN  IF S4.up[1].lastSlice THEN FinishUserpics(S4)
                     ELSE LET S5 == Expects(S4, Has(lastUserpicId), "loadNextUserpic: lastUserpicId.has_value()")
                          IN  IF S5.fatal # "" THEN S5
                              ELSE MainRequest(S5, "photos_GetUserPhotos", <<lastUserpicId[1]>>)

\* ApiWrap::loadUserpicDone
LoadUserpicDone(S, relativePath, w) ==
    LET S1 == Expects(S, Has(S.up), "loadUserpicDone: _userpicsProcess != nullptr")
        S2 == Expects(S1, S1.fatal # "" \/ Has(S1.up[1].slice), "loadUserpicDone: slice.has_value()")
        S3 == Expects(S2, S2.fatal # "" \/ (S2.up[1].fileIndex >= 0
                            /\ S2.up[1].fileIndex < Len(S2.up[1].slice[1])),
                      "loadUserpicDone: fileIndex in range")
    IN  IF S3.fatal # "" THEN S3
        ELSE LET index == S3.up[1].fileIndex
             IN  LoadNextUserpic(
                    [S3 EXCEPT !.up[1].slice[1][index + 1].file.relativePath = relativePath], w)

\* ParseUserpicsSlice reversing the list as ParseMessagesSlice does.
ParseUserpicsSlice_Reversed(photos) == Reverse(photos)

\* Data::ParseUserpicsSlice: the photos in wire order.
ParseUserpicsSlice(photos) == photos

\* ApiWrap::loadUserpicsFiles
LoadUserpicsFiles(S, slice, w) ==
    LET S1 == Expects(S, Has(S.up), "loadUserpicsFiles: _userpicsProcess != nullptr")
        S2 == Expects(S1, S1.fatal # "" \/ ~Has(S1.up[1].slice), "loadUserpicsFiles: !slice.has_value()")
    IN  IF S2.fatal # "" THEN S2
        ELSE LoadNextUserpic(
                [S2 EXCEPT !.up[1].lastSlice = IF slice = <<>> THEN TRUE ELSE @,
                           !.up[1].slice = Some(slice),
                           !.up[1].fileIndex = -1], w)

\* ApiWrap::handleUserpicsSlice; result = [type, photos, count]
HandleUserpicsSlice(S, result, w) ==
    LET S1 == Expects(S, Has(S.up), "handleUserpicsSlice: _userpicsProcess != nullptr")
    IN  IF S1.fatal # "" THEN S1
        ELSE LoadUserpicsFiles(
                [S1 EXCEPT !.up[1].lastSlice = IF result.type = "photos_photos" THEN TRUE ELSE @],
                ParseUserpicsSlice(result.photos), w)

\* The done handler of the first photos_GetUserPhotos request (requestUserpics).
UserpicsFirstDone(S, result, w) ==
    LET S1 == Expects(S, Has(S.up), "requestUserpics.done: _userpicsProcess != nullptr")
        count == IF result.type = "photos_photos" THEN Len(result.photos) ELSE result.count
    IN  IF S1.fatal # "" THEN S1
        ELSE HandleUserpicsSlice(
                Emit([S1 EXCEPT !.up[1].started = TRUE], "userpics.start",
                     [count |-> count, started |-> S1.up[1].started]),
                result, w)

\* ApiWrap::requestUserpics.  started (the start callback was called) is
\* bookkeeping.
RequestUserpics(S) ==
    LET S1 == Expects(S, ~Has(S.up), "requestUserpics: _userpicsProcess == nullptr")
    IN  IF S1.fatal # "" THEN S1
        ELSE MainRequest(
                [S1 EXCEPT !.up = Some([slice |-> None, lastSlice |-> FALSE, fileIndex |-> -1,
                                        started |-> FALSE])],
                "photos_GetUserPhotos.first", <<0>>)

\* ---- dialogs: the messages of one dialog ------------------------------
\* onlyMyMessages looking at settings.types instead of settings.fullChats.
OnlyMyMessages_UsesTypes(S) == S.dp[1].single[1].info.type \notin S.settings[1].types

\* ApiWrap::onlyMyMessages
OnlyMyMessages(S) == S.dp[1].single[1].info.type \notin S.settings[1].fullChats

\* ApiWrap::requestMessagesSlice.  requested (the kinds of the requests sent
\* for the dialog so far) is bookkeeping.
RequestMessagesSlice(S) ==
    LET S1 == Expects(S, Has(S.dp), "requestMessagesSlice: _dialogsProcess != nullptr")
        S2 == Expects(S1, S1.fatal # "" \/ Has(S1.dp[1].single), "requestMessagesSlice: single != nullptr")
    IN  IF S2.fatal # "" THEN S2
        ELSE LET kind == IF OnlyMyMessages(S2) THEN "messages_Search"
                         ELSE "messages_GetHistory"
             IN  MainRequest([S2 EXCEPT !.dp[1].single[1].requested = @ \cup {kind}],
                             kind,
                             <<S2.dp[1].single[1].info.input, S2.dp[1].single[1].offsetId>>)

\* ApiWrap::finishDialogs
FinishDialogs(S) ==
    LET S1 == Expects(S, Has(S.dp), "finishDialogs: _dialogsProcess != nullptr")
        S2 == Expects(S1, S1.fatal # "" \/ ~Has(S1.dp[1].single), "finishDialogs: single == nullptr")
    IN  IF S2.fatal # "" THEN S2
        ELSE Emit([S2 EXCEPT !.dp = None], "dialogs.finish",
                  [count |-> Len(S2.dp[1].info), started |-> S2.dp[1].started,
                   finished |-> S2.dp[1].finished])

\* DialogsProcess::Single::Single
Single(info) ==
    [info |-> info, offsetId |-> 1, slice |-> None, lastSlice |-> FALSE, fileIndex |-> -1,
     requested |-> {}]

\* ApiWrap::requestNextDialog.  info.list[index] with index >= list.size()
\* reads past the end of the vector: g is what the build does then, "Crash" or
\* the type of the DialogInfo the read produces (its input peer, 0, names no
\* dialog of the account).
RequestNextDialog(S, g) ==
    LET S1 == Expects(S, Has(S.dp), "requestNextDialog: _dialogsProcess != nullptr")
        S2 == Expects(S1, S1.fatal # "" \/ ~Has(S1.dp[1].single), "requestNextDialog: single == nullptr")
    IN  IF S2.fatal # "" THEN S2
        ELSE
        LET index == S2.dp[1].singleIndex + 1
            list == S2.dp[1].info
            S3 == [S2 EXCEPT !.dp[1].singleIndex = index]
        IN  IF index < kDialogsCap
            THEN IF index >= Len(list) /\ g = "Crash"
                 THEN Emit([S3 EXCEPT !.fatal = "requestNextDialog: info.list[index] out of range"],
                           "dialogs.read", [index |-> index, count |-> Len(list)])
                 ELSE LET one == IF index < Len(list) THEN list[index + 1]
                                 ELSE [type |-> g, input |-> 0, topMessageId |-> 0,
                                       relativePath |-> <<>>]
                          S4 == Emit(S3, "dialogs.read", [index |-> index, count |-> Len(list)])
                          S5 == Emit([S4 EXCEPT !.dp[1].single = Some(Single(one)),
                                                !.dp[1].started = @ + 1],
                                     "dialogs.startOne",
                                     [index |-> index, started |-> S4.dp[1].started,
                                      finished |-> S4.dp[1].finished])
                      IN  RequestMessagesSlice(S5)
            ELSE FinishDialogs(S3)

\* finishMessages asking for the next dialog before it calls finishOne.
FinishMessages_NextFirst(S, g) ==
    LET S1 == Expects(S, Has(S.dp), "finishMessages: _dialogsProcess != nullptr")
        S2 == Expects(S1, S1.fatal # "" \/ Has(S1.dp[1].single), "finishMessages: single != nullptr")
        S3 == Expects(S2, S2.fatal # "" \/ ~Has(S2.dp[1].single[1].slice), "finishMessages: !slice.has_value()")
    IN  IF S3.fatal # "" THEN S3
        ELSE LET S4 == RequestNextDialog([S3 EXCEPT !.dp[1].single = None], g)
             IN  IF S4.fatal # "" \/ ~Has(S4.dp) THEN S4
                 ELSE Emit([S4 EXCEPT !.dp[1].finished = @ + 1], "dialogs.finishOne",
                           [lastSlice |-> S3.dp[1].single[1].lastSlice])

\* ApiWrap::finishMessages
FinishMessages(S, g) ==
    LET S1 == Expects(S, Has(S.dp), "finishMessages: _dialogsProcess != nullptr")
        S2 == Expects(S1, S1.fatal # "" \/ Has(S1.dp[1].single), "finishMessages: single != nullptr")
        S3 == Expects(S2, S2.fatal # "" \/ ~Has(S2.dp[1].single[1].slice), "finishMessages: !slice.has_value()")
    IN  IF S3.fatal # "" THEN S3
        ELSE RequestNextDialog(
                Emit([S3 EXCEPT !.dp[1].single = None, !.dp[1].finished = @ + 1],
                     "dialogs.finishOne",
                     [lastSlice |-> S3.dp[1].single[1].lastSlice]), g)

\* ApiWrap::loadNextMessageFile
RECURSIVE LoadNextMessageFile(_, _, _)
LoadNextMessageFile(S, w, g) ==
    LET S1 == Expects(S, Has(S.dp), "loadNextMessageFile: _dialogsProcess != nullptr")
        S2 == Expects(S1, S1.fatal # "" \/ Has(S1.dp[1].single), "loadNextMessageFile: single != nullptr")
        S3 == Expects(S2, S2.fatal # "" \/ Has(S2.dp[1].single[1].slice), "loadNextMessageFile: slice.has_value()")
    IN  IF S3.fatal # "" THEN S3
        ELSE
        LET list == S3.dp[1].single[1].slice[1]
            index == S3.dp[1].single[1].fileIndex + 1
            S4 == [S3 EXCEPT !.dp[1].single[1].fileIndex = index]
        IN  IF index < Len(list)
            THEN TheOne({
                    IF r.S.fatal # "" THEN r.S
                    ELSE IF ~r.ret
                    THEN [r.S EXCEPT !.dp[1].single[1].slice[1][index + 1].file = r.file]
                    ELSE LoadNextMessageFile(
                            [r.S EXCEPT !.dp[1].single[1].slice[1][index + 1].file = r.file],
                            w, g) :
                    r \in {ProcessFileLoad(S4, list[index + 1].file, "loadMessageFileDone",
                                           None, w[index + 1])} })
            ELSE LET S5 == [S4 EXCEPT !.dp[1].single[1].offsetId =
                                        IF list # <<>> THEN Last(list).id + 1 ELSE @]
                     S6 == Emit([S5 EXCEPT !.dp[1].single[1].slice = None], "dialogs.sliceOne",
                                [count |-> Len(list), resolved |-> AllResolved(list),
                                 index |-> S5.dp[1].singleIndex,
                                 ids |-> [k \in 1..Len(list) |-> list[k].id],
                                 before |-> S4.dp[1].single[1].offsetId,
                                 offsetId |-> S5.dp[1].single[1].offsetId])
                 IN  IF S6.dp[1].single[1].lastSlice THEN FinishMessages(S6, g)
                     ELSE RequestMessagesSlice(S6)

\* ApiWrap::loadMessageFileDone
LoadMessageFileDone(S, relativePath, w, g) ==
    LET S1 == Expects(S, Has(S.dp), "loadMessageFileDone: _dialogsProcess != nullptr")
        S2 == Expects(S1, S1.fatal # "" \/ Has(S1.dp[1].single), "loadMessageFileDone: single != nullptr")
        S3 == Expects(S2, S2.fatal # "" \/ Has(S2.dp[1].single[1].slice), "loadMessageFileDone: slice.has_value()")
        S4 == Expects(S3, S3.fatal # "" \/ (S3.dp[1].single[1].fileIndex >= 0
                            /\ S3.dp[1].single[1].fileIndex < Len(S3.dp[1].single[1].slice[1])),
                      "loadMessageFileDone: fileIndex in range")
    IN  IF S4.fatal # "" THEN S4
        ELSE LET index == S4.dp[1].single[1].fileIndex
             IN  LoadNextMessageFile(
                    [S4 EXCEPT !.dp[1].single[1].slice[1][index + 1].file.relativePath = relativePath],
                    w, g)

\* ParseMessagesSlice without the reversal.
ParseMessagesSlice_NoReverse(messages) == messages

\* Data::ParseMessagesSlice: the wire list (newest first) reversed.
ParseMessagesSlice(messages) == Reverse(messages)

\* loadMessagesFiles asking for the next page before the files of the slice
\* are loaded.
LoadMessagesFiles_RequestsAhead(S, slice, w, g) ==
    LET S1 == Expects(S, Has(S.dp), "loadMessagesFiles: _dialogsProcess != nullptr")
        S2 == Expects(S1, S1.fatal # "" \/ Has(S1.dp[1].single), "loadMessagesFiles: single != nullptr")
        S3 == Expects(S2, S2.fatal # "" \/ ~Has(S2.dp[1].single[1].slice), "loadMessagesFiles: !slice.has_value()")
    IN  IF S3.fatal # "" THEN S3
        ELSE LoadNextMessageFile(
                [RequestMessagesSlice(S3) EXCEPT
                    !.dp[1].single[1].lastSlice = IF slice = <<>> THEN TRUE ELSE @,
                    !.dp[1].single[1].slice = Some(slice),
                    !.dp[1].single[1].fileIndex = -1], w, g)

\* ApiWrap::loadMessagesFiles
LoadMessagesFiles(S, slice, w, g) ==
    LET S1 == Expects(S, Has(S.dp), "loadMessagesFiles: _dialogsProcess != nullptr")
        S2 == Expects(S1, S1.fatal # "" \/ Has(S1.dp[1].single), "loadMessagesFiles: single != nullptr")
        S3 == Expects(S2, S2.fatal # "" \/ ~Has(S2.dp[1].single[1].slice), "loadMessagesFiles: !slice.has_value()")
    IN  IF S3.fatal # "" THEN S3
        ELSE LoadNextMessageFile(
                [S3 EXCEPT !.dp[1].single[1].lastSlice = IF slice = <<>> THEN TRUE ELSE @,
                           !.dp[1].single[1].slice = Some(slice),
                           !.dp[1].single[1].fileIndex = -1], w, g)

\* The done handler of requestMessagesSlice (handleResult);
\* result = [type, messages]
MessagesDone(S, result, w, g) ==
    LET S1 == Expects(S, Has(S.dp), "requestMessagesSlice.done: _dialogsProcess != nullptr")
        S2 == Expects(S1, S1.fatal # "" \/ Has(S1.dp[1].single), "requestMessagesSlice.done: single != nullptr")
    IN  IF S2.fatal # "" THEN S2
        ELSE IF result.type = "messages_messagesNotModified"
        THEN Error(S2, "Unexpected messagesNotModified received.")
        ELSE LoadMessagesFiles(
                [S2 EXCEPT !.dp[1].single[1].lastSlice =
                                IF result.type = "messages_messages" THEN TRUE ELSE @],
                ParseMessagesSlice(result.messages), w, g)

\* ---- dialogs: the list ------------------------------------------------
\* The decimal digits of a natural number, as characters.
RECURSIVE Digits(_)
Digits(n) ==
    LET char == <<"0", "1", "2", "3", "4", "5", "6", "7", "8", "9">>[(n % 10) + 1]
    IN  IF n < 10 THEN <<char>> ELSE Append(Digits(n \div 10), char)

\* Data::FillLeft
FillLeft(data, length, filler) ==
    IF length <= Len(data) THEN data
    ELSE [i \in 1..(length - Len(data)) |-> filler] \o data

\* Data::NumberToString (export_data_types.h): the decimal form of the number,
\* filled on the left up to length.
NumberToString(number, length, filler) == FillLeft(Digits(number), length, filler)

\* The digits of 2^64 - 1, what list.size() - 1 is for an empty list.
kSizeMaxDigits == 20

\* fillDialogsPaths with the index incremented after its use.
FillDialogsPaths_FromZero(list) ==
    LET digits == IF list = <<>> THEN kSizeMaxDigits
                  ELSE Len(NumberToString(Len(list) - 1, 0, "0"))
    IN  [i \in 1..Len(list) |->
            [list[i] EXCEPT !.relativePath =
                <<"Chats/chat_">> \o NumberToString(i - 1, digits, "0") \o <<"/">>]]

\* ApiWrap::fillDialogsPaths; a path is the sequence of its pieces, the number
\* character by character.
FillDialogsPaths(list) ==
    LET digits == IF list = <<>> THEN kSizeMaxDigits
                  ELSE Len(NumberToString(Len(list) - 1, 0, "0"))
    IN  [i \in 1..Len(list) |->
            [list[i] EXCEPT !.relativePath =
                <<"Chats/chat_">> \o NumberToString(i, digits, "0") \o <<"/">>]]

\* ApiWrap::finishDialogsList
FinishDialogsList(S, g) ==
    LET S1 == Expects(S, Has(S.dp), "finishDialogsList: _dialogsProcess != nullptr")
    IN  IF S1.fatal # "" THEN S1
        ELSE LET list == FillDialogsPaths(Reverse(S1.dp[1].info))
                 S2 == Emit([S1 EXCEPT !.dp[1].info = list],
                            "dialogs.start",
                            [count |-> Len(list), passed |-> S1.dp[1].passed,
                             index |-> S1.dp[1].singleIndex])
             IN  RequestNextDialog(S2, g)

\* The dialog types the switches of appendDialogsSlice and onlyMyMessages
\* have a case for; the bit of Settings::Type a case returns is named after
\* the dialog type ("Personal" is Settings::Type::PersonalChats, ...).
SettingsTypes ==
    {"Personal", "Bot", "PrivateGroup", "PublicGroup", "PrivateChannel", "PublicChannel"}

\* The filter of ApiWrap::appendDialogsSlice: the settings bit of a dialog
\* type, Settings::Type(0) for a type without a case.
TypeBit(type) == IF type \in SettingsTypes THEN {type} ELSE {}

\* The dialogs of info whose type bit is set in types.
FilterDialogs(info, types) == SelectSeq(info, LAMBDA d : (types \cap TypeBit(d.type)) # {})

\* appendDialogsSlice filtering by settings.types alone.
AppendDialogsSlice_TypesOnly(S, info) ==
    LET S1 == Expects(S, Has(S.dp), "appendDialogsSlice: _dialogsProcess != nullptr")
        S2 == Expects(S1, Has(S1.settings), "appendDialogsSlice: _settings != nullptr")
        types == S2.settings[1].types
        filtered == FilterDialogs(info, types)
    IN  IF S2.fatal # "" THEN S2
        ELSE [S2 EXCEPT !.dp[1].info = @ \o filtered]

\* ApiWrap::appendDialogsSlice
AppendDialogsSlice(S, info) ==
    LET S1 == Expects(S, Has(S.dp), "appendDialogsSlice: _dialogsProcess != nullptr")
        S2 == Expects(S1, Has(S1.settings), "appendDialogsSlice: _settings != nullptr")
        types == S2.settings[1].types \cup S2.settings[1].fullChats
        filtered == FilterDialogs(info, types)
    IN  IF S2.fatal # "" THEN S2
        ELSE [S2 EXCEPT !.dp[1].info = @ \o filtered]

\* ApiWrap::requestDialogsSlice (the request; offsetDate and offsetPeer are
\* set together with offsetId from the same dialog and travel with it)
RequestDialogsSlice(S) ==
    LET S1 == Expects(S, Has(S.dp), "requestDialogsSlice: _dialogsProcess != nullptr")
    IN  IF S1.fatal # "" THEN S1
        ELSE MainRequest(S1, "messages_GetDialogs", <<S1.dp[1].offsetId>>)

\* Data::ParseDialogsInfo
ParseDialogsInfo(result) ==
    [i \in 1..Len(result.dialogs) |->
        [type |-> result.dialogs[i].type, input |-> result.dialogs[i].peer,
         topMessageId |-> result.dialogs[i].top_message, relativePath |-> <<>>]]

\* The done handler of requestDialogsSlice; result = [type, dialogs].
DialogsDone(S, result, g) ==
    LET finished == result.type = "messages_dialogs" \/ result.dialogs = <<>>
        info == ParseDialogsInfo(result)
        types == S.settings[1].types \cup S.settings[1].fullChats
        S0 == IF Has(S.dp)
              THEN [S EXCEPT !.dp[1].passed = @ + Len(FilterDialogs(info, types))]
              ELSE S
    IN  IF finished \/ info = <<>>
        THEN FinishDialogsList(S0, g)
        ELSE RequestDialogsSlice(AppendDialogsSlice(
                [S0 EXCEPT !.dp[1].offsetId = Last(info).topMessageId], info))

\* ApiWrap::requestDialogs.  passed (the dialogs received so far whose type is
\* enabled), started and finished (startOne / finishOne calls so far) are
\* bookkeeping.
RequestDialogs(S) ==
    LET S1 == Expects(S, ~Has(S.dp), "requestDialogs: _dialogsProcess == nullptr")
    IN  IF S1.fatal # "" THEN S1
        ELSE RequestDialogsSlice(
                [S1 EXCEPT !.dp = Some([info |-> <<>>, offsetId |-> 0, single |-> None,
                                        singleIndex |-> -1, passed |-> 0,
                                        started |-> 0, finished |-> 0])])

\* ---- file transfer: a chunk arrives -----------------------------------
\* The write loop of filePartDone: write the head of the queue while its
\* bytes are present; the cw-th writeBlock of the handler fails (0: none).
\* Returns [S, failed].
RECURSIVE DrainRequests(_, _)
DrainRequests(S, cw) ==
    LET reqs == S.fp[1].requests
    IN  IF reqs # <<>> /\ Head(reqs).bytes # 0
        THEN IF cw = 1
             THEN [S |-> Error(S, "Could not write bytes to '%1'."), failed |-> TRUE]
             ELSE DrainRequests(
                    Emit([S EXCEPT !.fp[1].file = Append(@, Head(reqs).bytes),
                                   !.fp[1].requests = Tail(@)],
                         "writeBlock", Head(reqs).bytes),
                    IF cw = 0 THEN 0 ELSE cw - 1)
        ELSE [S |-> S, failed |-> FALSE]

\* The done callback given to loadFile.
FileDone(S, done, relativePath, w, g) ==
    IF done = "loadUserpicDone" THEN LoadUserpicDone(S, relativePath, w)
    ELSE LoadMessageFileDone(S, relativePath, w, g)

\* The end of filePartDone without base::take: the process stays active.
FileProcessDone_KeepsProcess(S, empty, w, g) ==
    LET process == S.fp[1]
        relativePath == process.relativePath
        S2 == Emit([S EXCEPT !.cache = CacheSave(@, process.location, relativePath)],
                   "save", relativePath)
        S3 == Emit(S2, "file.done",
                   [path |-> process.relativePath, size |-> process.size,
                    offset |-> process.offset, queue |-> Len(process.requests),
                    file |-> process.file,
                    empty |-> empty,
                    cached |-> CacheFind(S2.cache, process.location)])
    IN  FileDone(S3, process.done, process.relativePath, w, g)

\* The end of filePartDone without the save to the cache.
FileProcessDone_NoSave(S, empty, w, g) ==
    LET process == S.fp[1]
        S2 == [S EXCEPT !.fp = None]
        S3 == Emit(S2, "file.done",
                   [path |-> process.relativePath, size |-> process.size,
                    offset |-> process.offset, queue |-> Len(process.requests),
                    file |-> process.file,
                    empty |-> empty,
                    cached |-> CacheFind(S2.cache, process.location)])
    IN  FileDone(S3, process.done, process.relativePath, w, g)

\* The end of filePartDone: release the process, save, call done.
FileProcessDone(S, empty, w, g) ==
    LET process == S.fp[1]
        relativePath == process.relativePath
        S1 == [S EXCEPT !.fp = None]
        S2 == Emit([S1 EXCEPT !.cache = CacheSave(@, process.location, relativePath)],
                   "save", relativePath)
        S3 == Emit(S2, "file.done",
                   [path |-> process.relativePath, size |-> process.size,
                    offset |-> process.offset, queue |-> Len(process.requests),
                    file |-> process.file,
                    empty |-> empty,
                    cached |-> CacheFind(S2.cache, process.location)])
    IN  FileDone(S3, process.done, process.relativePath, w, g)

\* The part of filePartDone that handles a response with bytes.
FilePartBytes(S, offset, result, cw, w, g) ==
    LET reqs == S.fp[1].requests
        found == {i \in 1..Len(reqs) : reqs[i].offset = offset}
        S3 == Expects(S, found # {}, "filePartDone: i != end(requests)")
    IN  IF S3.fatal # "" THEN S3
        ELSE
        LET i == CHOOSE k \in found : \A j \in found : k <= j
            r == DrainRequests([S3 EXCEPT !.fp[1].requests[i].bytes = result.bytes], cw)
            fp == r.S.fp[1]
        IN  IF r.failed THEN r.S
            ELSE IF fp.requests # <<>> \/ fp.size = 0 \/ fp.size > fp.offset
            THEN LoadFilePart(r.S)
            ELSE FileProcessDone(r.S, FALSE, w, g)

\* filePartDone completing the transfer on any empty response.
FilePartDone_EmptyCompletes(S, offset, result, cw, w, g) ==
    LET S1 == Expects(S, Has(S.fp), "filePartDone: _fileProcess != nullptr")
        S2 == Expects(S1, S1.fatal # "" \/ S1.fp[1].requests # <<>>, "filePartDone: !requests.empty()")
    IN  IF S2.fatal # "" THEN S2
        ELSE IF result.type = "upload_fileCdnRedirect"
        THEN Error(S2, "Cdn redirect is not supported.")
        ELSE IF result.bytes = 0
        THEN FileProcessDone(S2, TRUE, w, g)
        ELSE FilePartBytes(S2, offset, result, cw, w, g)

\* filePartDone asking for the next part after a CDN redirect.
FilePartDone_CdnRetry(S, offset, result, cw, w, g) ==
    LET S1 == Expects(S, Has(S.fp), "filePartDone: _fileProcess != nullptr")
        S2 == Expects(S1, S1.fatal # "" \/ S1.fp[1].requests # <<>>, "filePartDone: !requests.empty()")
    IN  IF S2.fatal # "" THEN S2
        ELSE IF result.type = "upload_fileCdnRedirect"
        THEN LoadFilePart(Error(S2, "Cdn redirect is not supported."))
        ELSE IF result.bytes = 0
        THEN IF S2.fp[1].size > 0
             THEN Error(S2, "Empty bytes received in file part.")
             ELSE FileProcessDone(S2, TRUE, w, g)
        ELSE FilePartBytes(S2, offset, result, cw, w, g)

\* ApiWrap::filePartDone; result = [type, bytes]
FilePartDone(S, offset, result, cw, w, g) ==
    LET S1 == Expects(S, Has(S.fp), "filePartDone: _fileProcess != nullptr")
        S2 == Expects(S1, S1.fatal # "" \/ S1.fp[1].requests # <<>>, "filePartDone: !requests.empty()")
    IN  IF S2.fatal # "" THEN S2
        ELSE IF result.type = "upload_fileCdnRedirect"
        THEN Error(S2, "Cdn redirect is not supported.")
        ELSE IF result.bytes = 0
        THEN IF S2.fp[1].size > 0
             THEN Error(S2, "Empty bytes received in file part.")
             ELSE FileProcessDone(S2, TRUE, w, g)
        ELSE FilePartBytes(S2, offset, result, cw, w, g)

\* ---- the server and the local disk ------------------------------------
WriteOutcomes == {"Success", "Fail", "Crash"}

\* The outcomes of the preloaded writes of the elements after position from
\* of a slice, one per element; only an element with inline content consults
\* its outcome.
WriteOracle(list, from) ==
    {w \in [1..Len(list) -> WriteOutcomes] :
        \A i \in 1..Len(list) :
            (i <= from \/ list[i].file.content = 0) => w[i] = "Success"}

\* What an out-of-range info.list[index] does; consulted when the next index
\* is past the end of the list.
ReadOutcomes ==
    IF /\ Has(_dialogsProcess)
       /\ _dialogsProcess[1].singleIndex + 1 >= Len(_dialogsProcess[1].info)
       /\ _dialogsProcess[1].singleIndex + 1 < kDialogsCap
    THEN {"Crash"} \cup DialogTypes
    ELSE {"Crash"}

\* The sequences of n files.
FileSeqs(n) == [1..n -> WireFiles]

\* photos_GetUserPhotos(max_id): the n newest photos older than max_id.
PhotoPages(maxId) ==
    LET top == IF maxId = 0 THEN MaxItems ELSE maxId - 1
    IN  UNION { { [type |-> t, count |-> top,
                   photos |-> [i \in 1..n |-> [id |-> top + 1 - i, file |-> fs[i]]]] :
                  t \in {"photos_photos", "photos_photosSlice"}, fs \in FileSeqs(n) } :
                n \in 0..top }

\* The media of the message a file comes with: the two-chunk file is a
\* document that is a generic file (ParseDocument), the others are photos.
MediaOf(file) == IF file.size > kFileChunkSize THEN "File" ELSE "Photo"

\* messages_GetHistory / messages_Search(peer, offset_id, add_offset = -limit):
\* the n oldest messages of the dialog with id >= offset_id, newest first; no
\* messages for a peer that names no dialog.
MessagePages(peer, offsetId) ==
    UNION { { [type |-> t,
               messages |-> [i \in 1..n |-> [id |-> offsetId + n - i, file |-> fs[i],
                                             mediaType |-> MediaOf(fs[i])]]] :
              t \in {"messages_messages", "messages_messagesSlice"}, fs \in FileSeqs(n) } :
            n \in 0..(IF peer = 0 THEN 0 ELSE MaxItems + 1 - offsetId) }
    \cup { [type |-> "messages_messagesNotModified", messages |-> <<>>] }

\* The account's dialogs: the odd peers are users, the even ones groups.
DialogTypeOf(peer) == IF peer % 2 = 1 THEN "Personal" ELSE "PrivateGroup"

\* messages_GetDialogs(offset): the next n dialogs after the offset.
DialogPages(offsetId) ==
    { [type |-> t,
       dialogs |-> [i \in 1..n |-> [type |-> DialogTypeOf(offsetId + i), peer |-> offsetId + i,
                                    top_message |-> offsetId + i]]] :
      t \in {"messages_dialogs", "messages_dialogsSlice"}, n \in 0..(MaxItems - offsetId) }

\* The ids account_InitTakeoutSession can answer with.
TakeoutIds == {1, 2}

\* upload_GetFile(offset): a CDN redirect, or the bytes of the file at the
\* offset (the token of the chunk), or no bytes.
FileParts(offset) ==
    { [type |-> "upload_fileCdnRedirect", bytes |-> 0],
      [type |-> "upload_file", bytes |-> 0] }
    \cup (IF offset < MaxChunks * kFileChunkSize
          THEN { [type |-> "upload_file", bytes |-> offset \div kFileChunkSize + 1] }
          ELSE {})

\* ---- actions ----------------------------------------------------------
\* The emoji-set manager before any set is loaded: GlobalLoader is null.
NoLoader ==
    /\ GlobalLoader = 0
    /\ loaders = <<>>
    /\ asyncTasks = {}
    /\ mainQueue = <<>>

Init ==
    /\ _settings = None
    /\ _takeoutId = None
    /\ _userpicsProcess = None
    /\ _dialogsProcess = None
    /\ _fileProcess = None
    /\ _fileCache = [limit |-> kLocationCacheSize, map |-> <<>>, list |-> <<>>]
    /\ NoLoader
    /\ _mtp = {}
    /\ _errors = {}
    /\ fatal = ""
    /\ events = <<>>

\* The program has not been terminated by a failed check or a crash.
Running == fatal = ""

\* The caller (the export controller) calls the next request* method from the
\* done / finish callback of the previous one, and stops at the first error.
CallerIdle ==
    /\ Running
    /\ Has(_takeoutId)
    /\ _mtp = {}
    /\ ~Has(_userpicsProcess)
    /\ ~Has(_dialogsProcess)
    /\ _errors = {}

\* The handler of a response runs once: the request is no longer outstanding.
Take(S, r) == [S EXCEPT !.net = @ \ {r}]

\* ApiWrap::startExport + startMainSession
StartExport ==
    /\ Running
    /\ ~Has(_settings)
    /\ \E settings \in SettingsSet :
          Commit(Send([State EXCEPT !.settings = Some(settings)],
                      "account_InitTakeoutSession", <<>>, None))

\* The done handler of startMainSession: the server names the session.
TakeoutDone ==
    /\ Running
    /\ \E r \in _mtp :
          /\ r.kind = "account_InitTakeoutSession"
          /\ \E id \in TakeoutIds :
                Commit(Emit([Take(State, r) EXCEPT !.takeoutId = Some(id)], "export.done", 0))

\* The fail handler of any request: error(std::move(result)).
RequestFail ==
    /\ Running
    /\ \E r \in _mtp : Commit(Error(Take(State, r), "RPC_ERROR"))

\* requestPersonalInfo, requestContacts, requestSessions
RequestSimple ==
    /\ CallerIdle
    /\ \E kind \in {"users_GetFullUser", "contacts_GetSaved", "account_GetAuthorizations"} :
          Commit(MainRequest(State, kind, <<>>))

\* Their done handlers; a full user of a type other than user is an error.
SimpleDone ==
    /\ Running
    /\ \E r \in _mtp :
          /\ r.kind \in {"users_GetFullUser", "contacts_GetSaved", "account_GetAuthorizations"}
          /\ \E userType \in (IF r.kind = "users_GetFullUser" THEN {"user", "userEmpty"}
                              ELSE {"user"}) :
                Commit(IF userType # "user"
                       THEN Error(Take(State, r), "Bad user type.")
                       ELSE Emit(Take(State, r), "simple.done", r.kind))

CallRequestUserpics ==
    /\ CallerIdle
    /\ Commit(RequestUserpics(State))

UserpicsDone ==
    /\ Running
    /\ \E r \in _mtp :
          /\ r.kind \in {"photos_GetUserPhotos.first", "photos_GetUserPhotos"}
          /\ \E result \in PhotoPages(r.arg[1]) :
             \E w \in WriteOracle(result.photos, 0) :
                Commit(IF r.kind = "photos_GetUserPhotos.first"
                       THEN UserpicsFirstDone(Take(State, r), result, w)
                       ELSE HandleUserpicsSlice(Take(State, r), result, w))

CallRequestDialogs ==
    /\ CallerIdle
    /\ Commit(RequestDialogs(State))

DialogsListDone ==
    /\ Running
    /\ \E r \in _mtp :
          /\ r.kind = "messages_GetDialogs"
          /\ \E result \in DialogPages(r.arg[1]) :
             \E g \in ReadOutcomes :
                Commit(DialogsDone(Take(State, r), result, g))

MessagesSliceDone ==
    /\ Running
    /\ \E r \in _mtp :
          /\ r.kind \in {"messages_GetHistory", "messages_Search"}
          /\ \E result \in MessagePages(r.arg[1], r.arg[2]) :
             \E w \in WriteOracle(Reverse(result.messages), 0) :
             \E g \in ReadOutcomes :
                Commit(MessagesDone(Take(State, r), result, w, g))

\* The slice the active transfer belongs to (the one its done callback
\* continues), and the position reached in it.
CurrentList ==
    IF Has(_fileProcess) /\ _fileProcess[1].done = "loadUserpicDone"
    THEN IF Has(_userpicsProcess) /\ Has(_userpicsProcess[1].slice)
         THEN _userpicsProcess[1].slice[1] ELSE <<>>
    ELSE IF Has(_dialogsProcess) /\ Has(_dialogsProcess[1].single)
            /\ Has(_dialogsProcess[1].single[1].slice)
    THEN _dialogsProcess[1].single[1].slice[1]
    ELSE <<>>

CurrentIndex ==
    IF Has(_fileProcess) /\ _fileProcess[1].done = "loadUserpicDone"
    THEN IF Has(_userpicsProcess) THEN _userpicsProcess[1].fileIndex + 1 ELSE 0
    ELSE IF Has(_dialogsProcess) /\ Has(_dialogsProcess[1].single)
    THEN _dialogsProcess[1].single[1].fileIndex + 1
    ELSE 0

FilePartArrives ==
    /\ Running
    /\ \E r \in _mtp :
          /\ r.kind = "upload_GetFile"
          /\ \E result \in FileParts(r.arg[1]) :
             \E cw \in (IF result.bytes # 0 THEN {0, 1} ELSE {0}) :
             \E w \in WriteOracle(CurrentList, CurrentIndex) :
             \E g \in ReadOutcomes :
                Commit(FilePartDone(Take(State, r), r.arg[1], result, cw, w, g))

Next ==
    \/ StartExport
    \/ TakeoutDone
    \/ RequestFail
    \/ RequestSimple
    \/ SimpleDone
    \/ CallRequestUserpics
    \/ UserpicsDone
    \/ CallRequestDialogs
    \/ DialogsListDone
    \/ MessagesSliceDone
    \/ FilePartArrives

Spec == Init /\ [][Next]_vars

\* ---- a caller that does not wait ----------------------------------------
\* The moments at which the export controller never calls a request* method:
\* before the session is open, or while a paginated process is active.
Untimely ==
    /\ Running
    /\ _errors = {}
    /\ ~Has(_takeoutId) \/ Has(_userpicsProcess) \/ Has(_dialogsProcess)

UntimelyRequestUserpics ==
    /\ Untimely
    /\ Commit(RequestUserpics(State))

UntimelyRequestDialogs ==
    /\ Untimely
    /\ Commit(RequestDialogs(State))

\* requestPersonalInfo, requestContacts, requestSessions before the session.
UntimelyRequestSimple ==
    /\ Running
    /\ ~Has(_takeoutId)
    /\ \E kind \in {"users_GetFullUser", "contacts_GetSaved", "account_GetAuthorizations"} :
          Commit(MainRequest(State, kind, <<>>))

\* Both paginated processes exist.
TwoProcesses == Has(_userpicsProcess) /\ Has(_dialogsProcess)

\* A run is followed until two processes exist; from there on only the
\* caller's further calls are looked at.
NextAnyCaller ==
    \/ ~TwoProcesses /\ Next
    \/ UntimelyRequestUserpics
    \/ UntimelyRequestDialogs
    \/ UntimelyRequestSimple

SpecAnyCaller == Init /\ [][NextAnyCaller]_vars

\* ---- the cache, the keys, the peer ids and the folder numbers on their own
\* Each unit is applied to inputs drawn from the sets below; events is the log
\* of the applications: the saves made to the cache, followed by the last find
\* made after them, or the single application of one of the other units.

\* Locations as the parsers produce them: a plain file location has a
\* local_id, the other variants none.
FileLocation(variant, dc, id, local) ==
    [dcId |-> dc, variant |-> variant, id |-> id,
     local_id |-> IF variant = "file" THEN local ELSE 0]

Variants == {"file", "document", "secure", "encrypted"}

\* The locations saved to the cache under test (data centers 1 and 2).
CacheLocations ==
    { FileLocation("file", 1, 1, 0), FileLocation("file", 1, 1, 1),
      FileLocation("document", 1, 1, 0), FileLocation("secure", 1, 1, 0),
      FileLocation("encrypted", 2, 1, 0), FileLocation("document", 1, 2, 0) }

\* The locations given to ComputeLocationKey: dcId is an int, of any size.
KeyInputs ==
    { FileLocation(v, dc, id, local) :
        v \in Variants, dc \in {0, 1, 2, kVariantShift - 1, kVariantShift,
                                2 * kVariantShift + 1},
        id \in {1, 2}, local \in {0, 1} }

\* int32 ids given to UserPeerId / ChatPeerId.
PeerInputs == {0, 1, 2, 65535, 65536, 2147483647, -1, -65536, -2147483647}

\* A dialog list of n entries as ParseDialogsInfo produces it.
DialogList(n) ==
    ParseDialogsInfo([type |-> "messages_dialogs",
                      dialogs |-> [i \in 1..n |-> [type |-> DialogTypeOf(i), peer |-> i,
                                                   top_message |-> i]]])

UnitInit ==
    /\ _settings = None
    /\ _takeoutId = None
    /\ _userpicsProcess = None
    /\ _dialogsProcess = None
    /\ _fileProcess = None
    /\ \E limit \in 0..MaxLimit : _fileCache = [limit |-> limit, map |-> <<>>, list |-> <<>>]
    /\ NoLoader
    /\ _mtp = {}
    /\ _errors = {}
    /\ fatal = ""
    /\ events = <<>>

Applied(e, arg) == [e |-> e, arg |-> arg, fp |-> FALSE]

\* The saves of the log.
Saves == SelectSeq(events, LAMBDA x : x.e = "cache.save")

CacheLog == \A i \in 1..Len(events) : events[i].e \in {"cache.save", "cache.find"}

\* LoadedFileCache::save of a location, with a path of its own.
CacheSaveStep ==
    /\ CacheLog
    /\ Len(Saves) < MaxSaves
    /\ \E location \in CacheLocations :
          LET path == Len(Saves) + 1
          IN  /\ _fileCache' = CacheSave(_fileCache, location, path)
              /\ events' = Append(Saves, Applied("cache.save",
                                                 [location |-> location, path |-> path]))
    /\ UNCHANGED <<emojiVars, _settings, _takeoutId, _userpicsProcess, _dialogsProcess,
                   _fileProcess, _mtp, _errors, fatal>>

\* LoadedFileCache::find (a const method) of a location.
CacheFindStep ==
    /\ CacheLog
    /\ \E location \in CacheLocations :
          events' = Append(Saves, Applied("cache.find",
                                          [location |-> location,
                                           result |-> CacheFind(_fileCache, location)]))
    /\ UNCHANGED <<emojiVars, _settings, _takeoutId, _userpicsProcess, _dialogsProcess,
                   _fileProcess, _fileCache, _mtp, _errors, fatal>>

\* ComputeLocationKey of a location.
KeyStep ==
    /\ events = <<>>
    /\ \E location \in KeyInputs :
          events' = <<Applied("key", [location |-> location,
                                      key |-> ComputeLocationKey(location)])>>
    /\ UNCHANGED <<emojiVars, _settings, _takeoutId, _userpicsProcess, _dialogsProcess,
                   _fileProcess, _fileCache, _mtp, _errors, fatal>>

\* UserPeerId / ChatPeerId of an id, and BarePeerId of the result.
PeerStep ==
    /\ events = <<>>
    /\ \E x \in PeerInputs : \E kind \in {"user", "chat"} :
          LET peer == IF kind = "user" THEN UserPeerId(x) ELSE ChatPeerId(x)
          IN  events' = <<Applied("peer", [kind |-> kind, id |-> x, peer |-> peer,
                                           bare |-> BarePeerId(peer)])>>
    /\ UNCHANGED <<emojiVars, _settings, _takeoutId, _userpicsProcess, _dialogsProcess,
                   _fileProcess, _fileCache, _mtp, _errors, fatal>>

\* fillDialogsPaths of a list of n dialogs.
FillStep ==
    /\ events = <<>>
    /\ \E n \in 0..MaxDialogs :
          events' = <<Applied("fillDialogsPaths", FillDialogsPaths(DialogList(n)))>>
    /\ UNCHANGED <<emojiVars, _settings, _takeoutId, _userpicsProcess, _dialogsProcess,
                   _fileProcess, _fileCache, _mtp, _errors, fatal>>

\* The media settings given to processFileLoad on its own: every set of
\* enabled types, a size limit of one byte or of one chunk and a byte.
UnitSettings ==
    { [types |-> {"Personal"}, fullChats |-> {},
       media |-> [types |-> types, sizeLimit |-> sizeLimit], path |-> 1] :
        types \in SUBSET MediaTypes, sizeLimit \in {1, kFileChunkSize + 1} }

\* The files given to processFileLoad on its own: without a location, with
\* inline content (of size 1), or remote of a size around the limits.
UnitFiles ==
    { File(Location(0, 0), 0, 0), File(Location(1, 1), 1, 1) }
    \cup { File(Location(1, id), 0, size) :
              id \in {1, 2},
              size \in {0, 1, kFileChunkSize, kFileChunkSize + 1, kFileChunkSize + 2} }

\* processFileLoad of a file, as loadNextUserpic calls it (no message), with
\* no transfer active, on a cache that is empty or holds one location.
ProcessStep ==
    /\ events = Saves
    /\ Len(Saves) <= 1
    /\ \E settings \in UnitSettings : \E file \in UnitFiles :
       \E w \in (IF file.content # 0 THEN WriteOutcomes ELSE {"Success"}) :
          Commit(ProcessFileLoad([State EXCEPT !.settings = Some(settings),
                                               !.takeoutId = Some(1)],
                                 file, "loadUserpicDone", None, w).S)

\* The type bitmasks given to appendDialogsSlice on its own.
UnitTypes == SUBSET {"Personal", "PrivateGroup", "PublicChannel"}

\* The types ParseDialogsInfo gives a dialog: Unknown when the peer is not
\* among the users and chats of the answer, else Personal, Channel,
\* PrivateGroup or PublicGroup.
ParsedTypes == {"Unknown", "Personal", "Channel", "PrivateGroup", "PublicGroup"}

\* The pages of at most two dialogs given to appendDialogsSlice on its own.
UnitPages ==
    UNION { { [type |-> "messages_dialogsSlice",
               dialogs |-> [i \in 1..n |-> [type |-> ts[i], peer |-> i, top_message |-> i]]] :
              ts \in [1..n -> ParsedTypes] } : n \in 0..2 }

\* appendDialogsSlice of a parsed page, the list being empty or holding one
\* dialog already.
AppendStep ==
    /\ events = <<>>
    /\ \E types \in UnitTypes : \E fullChats \in UnitTypes :
       \E result \in UnitPages : \E before \in {DialogList(0), DialogList(1)} :
          LET info == ParseDialogsInfo(result)
              S == [State EXCEPT
                      !.settings = Some([types |-> types, fullChats |-> fullChats,
                                         media |-> [types |-> {}, sizeLimit |-> 1],
                                         path |-> 1]),
                      !.dp = Some([info |-> before, offsetId |-> 0, single |-> None,
                                   singleIndex |-> -1, passed |-> 0,
                                   started |-> 0, finished |-> 0])]
              S1 == AppendDialogsSlice(S, info)
          IN  Commit(Emit(S1, "appendDialogsSlice",
                          [page |-> info, before |-> before, list |-> S1.dp[1].info,
                           types |-> types, fullChats |-> fullChats]))

\* ParseUserpicsSlice of the photos of a page and ParseMessagesSlice of the
\* messages of a page, both as the server answers them.
ParseSlicesStep ==
    /\ events = <<>>
    /\ \E photos \in PhotoPages(0) : \E messages \in MessagePages(1, 1) :
          events' = <<Applied("parseSlices",
                              [photos |-> photos.photos,
                               userpics |-> ParseUserpicsSlice(photos.photos),
                               messages |-> messages.messages,
                               slice |-> ParseMessagesSlice(messages.messages)])>>
    /\ UNCHANGED <<emojiVars, _settings, _takeoutId, _userpicsProcess, _dialogsProcess,
                   _fileProcess, _fileCache, _mtp, _errors, fatal>>

\* ---- the parsers of documents (export_data_types.cpp) -----------------
\* A string is the sequence of its characters; the bidi control characters
\* are named by their code points.
kBidiControls ==
    <<"U+200E", "U+200F", "U+202A", "U+202B", "U+202D", "U+202E", "U+2066", "U+2067">>

\* The characters CleanDocumentName replaces: the eight bidi controls and
\* the reserved path characters of the platform the build is for (os).
Controls(os) ==
    kBidiControls \o
    (IF os = "Q_OS_WIN" THEN <<"\\", "/", ":", "*", "?", "\"", "<", ">", "|">>
     ELSE IF os = "Q_OS_MAC" THEN <<":">>
     ELSE IF os = "Q_OS_LINUX" THEN <<"/">>
     ELSE <<>>)

\* QString::replace(before, after) for characters: every occurrence.
Replace(name, before, after) ==
    [i \in 1..Len(name) |-> IF name[i] = before THEN after ELSE name[i]]

\* The letters that have a lower case form among the characters in use.
UpperCase ==
    <<"A", "C", "D", "E", "F", "I", "K", "L", "M", "N", "O", "P", "S", "U", "V">>

LowerCase ==
    <<"a", "c", "d", "e", "f", "i", "k", "l", "m", "n", "o", "p", "s", "u", "v">>

\* QChar::toLower
ToLowerChar(c) ==
    IF \E i \in 1..Len(UpperCase) : UpperCase[i] = c
    THEN LowerCase[CHOOSE i \in 1..Len(UpperCase) : UpperCase[i] = c]
    ELSE c

\* QString::toLower
ToLower(s) == [i \in 1..Len(s) |-> ToLowerChar(s[i])]

\* QString::trimmed: without the white space at both ends.
Trimmed(s) ==
    LET inside == {i \in 1..Len(s) : s[i] # " "}
    IN  IF inside = {} THEN <<>>
        ELSE SubSeq(s, CHOOSE i \in inside : \A j \in inside : i <= j,
                       CHOOSE i \in inside : \A j \in inside : i >= j)

\* QString::endsWith
EndsWith(s, suffix) ==
    /\ Len(suffix) <= Len(s)
    /\ SubSeq(s, Len(s) - Len(suffix) + 1, Len(s)) = suffix

\* FormatDateTime(date, '_', '_', '_') (export_data_types.h): the date as
\* text; the decimal form of the time stamp stands for it.
FormatDateTime(date) == Digits(date)

\* Core::MimeTypeForName(mime).globPatterns().front() of the MIME database,
\* empty for a type the database does not know.
GlobPattern(mime) ==
    IF ToLower(mime) = <<"v", "i", "d", "e", "o", "/", "m", "p", "4">>
    THEN <<"*", ".", "m", "p", "4">>
    ELSE IF ToLower(mime) = <<"a", "u", "d", "i", "o", "/", "m", "p", "3">>
    THEN <<"*", ".", "m", "p", "3">>
    ELSE <<>>

\* qstr("audio/mp3")
kAudioMp3 == <<"a", "u", "d", "i", "o", "/", "m", "p", "3">>

\* ComputeDocumentName comparing the MIME type with audio/mp3 exactly.
ComputeDocumentName_CaseSensitive(data, date) ==
    IF data.name # <<>> THEN data.name
    ELSE LET pattern == GlobPattern(data.mime)
             isMP3 == data.mime = kAudioMp3
             extension ==
                IF data.isVoiceMessage
                THEN (IF isMP3 THEN <<".", "m", "p", "3">> ELSE <<".", "o", "g", "g">>)
                ELSE IF data.isVideoFile
                THEN (IF pattern = <<>> THEN <<".", "m", "o", "v">>
                      ELSE SelectSeq(pattern, LAMBDA c : c # "*"))
                ELSE (IF pattern = <<>> THEN <<".", "u", "n", "k", "n", "o", "w", "n">>
                      ELSE SelectSeq(pattern, LAMBDA c : c # "*"))
             prefix == IF data.isVoiceMessage THEN <<"Audio_">>
                       ELSE IF data.isVideoFile THEN <<"Video_">>
                       ELSE <<"File_">>
         IN  prefix \o FormatDateTime(date) \o extension

\* Data::ComputeDocumentName
ComputeDocumentName(data, date) ==
    IF data.name # <<>> THEN data.name
    ELSE LET pattern == GlobPattern(data.mime)
             isMP3 == ToLower(data.mime) = ToLower(kAudioMp3)
             extension ==
                IF data.isVoiceMessage
                THEN (IF isMP3 THEN <<".", "m", "p", "3">> ELSE <<".", "o", "g", "g">>)
                ELSE IF data.isVideoFile
                THEN (IF pattern = <<>> THEN <<".", "m", "o", "v">>
                      ELSE SelectSeq(pattern, LAMBDA c : c # "*"))
                ELSE (IF pattern = <<>> THEN <<".", "u", "n", "k", "n", "o", "w", "n">>
                      ELSE SelectSeq(pattern, LAMBDA c : c # "*"))
             prefix == IF data.isVoiceMessage THEN <<"Audio_">>
                       ELSE IF data.isVideoFile THEN <<"Video_">>
                       ELSE <<"File_">>
         IN  prefix \o FormatDateTime(date) \o extension

\* The loop of CleanDocumentName: the characters of controls from position k
\* on replaced by '_', one after the other.
RECURSIVE ReplaceControls(_, _, _)
ReplaceControls(name, controls, k) ==
    IF k > Len(controls) THEN name
    ELSE ReplaceControls(Replace(name, controls[k], "_"), controls, k + 1)

kBadExtensions == {<<".", "l", "n", "k">>, <<".", "s", "c", "f">>}

kMaskExtension == <<".", "d", "o", "w", "n", "l", "o", "a", "d">>

\* CleanDocumentName without the right-to-left override in its list.
CleanDocumentName_NoOverride(name, os) ==
    LET cleaned == ReplaceControls(name, SelectSeq(Controls(os), LAMBDA c : c # "U+202E"), 1)
        lower == ToLower(Trimmed(cleaned))
    IN  IF os = "Q_OS_WIN" /\ \E extension \in kBadExtensions : EndsWith(lower, extension)
        THEN cleaned \o kMaskExtension
        ELSE cleaned

\* Data::CleanDocumentName, built for the platform os.
CleanDocumentName(name, os) ==
    LET cleaned == ReplaceControls(name, Controls(os), 1)
        lower == ToLower(Trimmed(cleaned))
    IN  IF os = "Q_OS_WIN" /\ \E extension \in kBadExtensions : EndsWith(lower, extension)
        THEN cleaned \o kMaskExtension
        ELSE cleaned

\* Data::Document as its constructor leaves it.
Document ==
    [id |-> 0, date |-> 0, mime |-> <<>>, name |-> <<>>,
     isAnimated |-> FALSE, isVideoMessage |-> FALSE, isVideoFile |-> FALSE,
     isVoiceMessage |-> FALSE, isAudioFile |-> FALSE,
     file |-> [size |-> 0, location |-> Location(0, 0), suggestedPath |-> <<>>]]

\* Data::ParseAttributes: the attributes from position k on applied to result
\* in their order (the sizes, durations and titles are left out).
RECURSIVE ParseAttributes(_, _, _)
ParseAttributes(result, attributes, k) ==
    IF k > Len(attributes) THEN result
    ELSE LET data == attributes[k]
             next ==
                IF data.type = "documentAttributeAnimated"
                THEN [result EXCEPT !.isAnimated = TRUE]
                ELSE IF data.type = "documentAttributeVideo"
                THEN (IF data.flag THEN [result EXCEPT !.isVideoMessage = TRUE]
                      ELSE [result EXCEPT !.isVideoFile = TRUE])
                ELSE IF data.type = "documentAttributeAudio"
                THEN (IF data.flag THEN [result EXCEPT !.isVoiceMessage = TRUE]
                      ELSE [result EXCEPT !.isAudioFile = TRUE])
                ELSE IF data.type = "documentAttributeFilename"
                THEN [result EXCEPT !.name = data.file_name]
                ELSE result
         IN  ParseAttributes(next, attributes, k + 1)

\* Data::ParseDocument, built for the platform os.
ParseDocument(data, suggestedFolder, date, os) ==
    IF data.type = "document"
    THEN LET result == ParseAttributes(
                          [Document EXCEPT !.id = data.id, !.date = data.date,
                                           !.file.size = data.size,
                                           !.file.location = Location(data.dc_id, data.id),
                                           !.mime = data.mime_type],
                          data.attributes, 1)
         IN  [result EXCEPT !.file.suggestedPath =
                suggestedFolder \o CleanDocumentName(
                    ComputeDocumentName(result, IF date # 0 THEN date ELSE result.date), os)]
    ELSE [Document EXCEPT !.id = data.id]

\* The file names given to the parsers: plain, with right-to-left overrides,
\* all eight controls, a shortcut extension in capitals followed by a space,
\* and reserved path characters.
UnitNames ==
    { <<"a">>,
      <<"a", "U+202E", "b", "U+202E">>,
      kBidiControls,
      <<"x", ".", "L", "N", "K", " ">>,
      <<"a", "/", "b", ":", "c", "*", "/">> }

\* The MIME types given to the parsers.
UnitMimes ==
    { <<>>, kAudioMp3,
      <<"A", "U", "D", "I", "O", "/", "M", "P", "3">>,
      <<"A", "u", "d", "i", "o", "/", "m", "p", "3">>,
      <<"a", "u", "d", "i", "o", "/", "o", "g", "g">>,
      <<"v", "i", "d", "e", "o", "/", "m", "p", "4">> }

\* The attributes of a wire document: flag is is_voice of an audio attribute
\* and is_round_message of a video attribute.
UnitAttributes ==
    { [type |-> "documentAttributeFilename", file_name |-> name, flag |-> FALSE] :
        name \in UnitNames \cup {<<>>} }
    \cup { [type |-> t, file_name |-> <<>>, flag |-> flag] :
             t \in {"documentAttributeAudio", "documentAttributeVideo"}, flag \in BOOLEAN }
    \cup { [type |-> "documentAttributeAnimated", file_name |-> <<>>, flag |-> FALSE] }

\* The attribute vectors of a wire document: at most two attributes, no two
\* of one type.
UnitAttributeLists ==
    { <<>> } \cup { <<a>> : a \in UnitAttributes }
    \cup { ab \in UnitAttributes \X UnitAttributes : ab[1].type # ab[2].type }

\* The wire documents given to ParseDocument; a document is dated 7.
UnitDocuments ==
    { [type |-> "document", id |-> 1, date |-> 7, size |-> 1, dc_id |-> 1,
       mime_type |-> mime, attributes |-> attributes] :
        mime \in UnitMimes, attributes \in UnitAttributeLists }
    \cup { [type |-> "documentEmpty", id |-> 1, date |-> 0, size |-> 0, dc_id |-> 0,
            mime_type |-> <<>>, attributes |-> <<>>] }

\* The platforms CleanDocumentName is built for.
Platforms == {"Q_OS_WIN", "Q_OS_MAC", "Q_OS_LINUX", "other"}

\* ParseDocument of a wire document of a message dated date (0: no date), as
\* ParseMedia calls it; with the name ComputeDocumentName gives the parsed
\* document, and CleanDocumentName applied once and twice to that name.
DocumentStep ==
    /\ events = <<>>
    /\ \E data \in UnitDocuments : \E date \in {0, 5} : \E os \in Platforms :
       \E document \in {ParseDocument(data, <<"Files/">>, date, os)} :
       \E name \in {ComputeDocumentName(document,
                                        IF date # 0 THEN date ELSE document.date)} :
       \E once \in {CleanDocumentName(name, os)} :
          events' = <<Applied("parseDocument",
                              [data |-> data, date |-> date, os |-> os,
                               folder |-> <<"Files/">>,
                               document |-> document, name |-> name,
                               once |-> once,
                               twice |-> CleanDocumentName(once, os)])>>
    /\ UNCHANGED <<emojiVars, _settings, _takeoutId, _userpicsProcess, _dialogsProcess,
                   _fileProcess, _fileCache, _mtp, _errors, fatal>>

\* ---- the parsers of messages (export_data_types.cpp) ------------------
\* Data::PreparePhotoFileName
PreparePhotoFileName(date) == <<"Photo_">> \o FormatDateTime(date) \o <<".jpg">>

\* Data::ParsePhoto; of the image only the suggested path of its file is
\* kept (the sizes are left out).
ParsePhoto(data, suggestedPath) ==
    IF data.type = "photo"
    THEN [id |-> data.id, date |-> data.date, suggestedPath |-> suggestedPath]
    ELSE [id |-> data.id, date |-> 0, suggestedPath |-> <<>>]

\* Photo(): a default constructed photo.
Photo == [id |-> 0, date |-> 0, suggestedPath |-> <<>>]

\* The content of a Media or of a ServiceAction: the alternative of the
\* variant that is set ("None": the empty content), with the photo or the
\* document it carries; the scalar fields of the other alternatives are
\* left out.
Content(kind) == [kind |-> kind, photo |-> Photo, document |-> Document, botId |-> 0]

\* ParseMedia without a case for invoices.
ParseMedia_NoInvoice(data, folder, date, botId, os) ==
    LET ttl == IF data.has_ttl_seconds THEN data.ttl_seconds ELSE 0
    IN  IF data.type = "messageMediaPhoto"
        THEN [content |-> [Content("Photo") EXCEPT !.photo =
                              IF data.has_photo
                              THEN ParsePhoto(data.photo,
                                              folder \o <<"Photos/">> \o PreparePhotoFileName(date))
                              ELSE Photo],
              ttl |-> ttl]
        ELSE IF data.type = "messageMediaGeo"
        THEN [content |-> Content("GeoPoint"), ttl |-> 0]
        ELSE IF data.type = "messageMediaContact"
        THEN [content |-> Content("ContactInfo"), ttl |-> 0]
        ELSE IF data.type = "messageMediaUnsupported"
        THEN [content |-> Content("UnsupportedMedia"), ttl |-> 0]
        ELSE IF data.type = "messageMediaDocument"
        THEN [content |-> [Content("Document") EXCEPT !.document =
                              IF data.has_document
                              THEN ParseDocument(data.document, folder \o <<"Files/">>, date, os)
                              ELSE Document],
              ttl |-> ttl]
        ELSE IF data.type = "messageMediaWebPage"
        THEN [content |-> Content("None"), ttl |-> 0]
        ELSE IF data.type = "messageMediaVenue"
        THEN [content |-> Content("Venue"), ttl |-> 0]
        ELSE IF data.type = "messageMediaGame"
        THEN [content |-> [Content("Game") EXCEPT !.botId = botId], ttl |-> 0]
        ELSE IF data.type = "messageMediaGeoLive"
        THEN [content |-> Content("GeoPoint"), ttl |-> data.period]
        ELSE [content |-> Content("None"), ttl |-> 0]

\* Data::ParseMedia, built for the platform os.
ParseMedia(data, folder, date, botId, os) ==
    LET ttl == IF data.has_ttl_seconds THEN data.ttl_seconds ELSE 0
    IN  IF data.type = "messageMediaPhoto"
        THEN [content |-> [Content("Photo") EXCEPT !.photo =
                              IF data.has_photo
                              THEN ParsePhoto(data.photo,
                                              folder \o <<"Photos/">> \o PreparePhotoFileName(date))
                              ELSE Photo],
              ttl |-> ttl]
        ELSE IF data.type = "messageMediaGeo"
        THEN [content |-> Content("GeoPoint"), ttl |-> 0]
        ELSE IF data.type = "messageMediaContact"
        THEN [content |-> Content("ContactInfo"), ttl |-> 0]
        ELSE IF data.type = "messageMediaUnsupported"
        THEN [content |-> Content("UnsupportedMedia"), ttl |-> 0]
        ELSE IF data.type = "messageMediaDocument"
        THEN [content |-> [Content("Document") EXCEPT !.document =
                              IF data.has_document
                              THEN ParseDocument(data.document, folder \o <<"Files/">>, date, os)
                              ELSE Document],
              ttl |-> ttl]
        ELSE IF data.type = "messageMediaWebPage"
        THEN [content |-> Content("None"), ttl |-> 0]
        ELSE IF data.type = "messageMediaVenue"
        THEN [content |-> Content("Venue"), ttl |-> 0]
        ELSE IF data.type = "messageMediaGame"
        THEN [content |-> [Content("Game") EXCEPT !.botId = botId], ttl |-> 0]
        ELSE IF data.type = "messageMediaInvoice"
        THEN [content |-> Content("Invoice"), ttl |-> 0]
        ELSE IF data.type = "messageMediaGeoLive"
        THEN [content |-> Content("GeoPoint"), ttl |-> data.period]
        ELSE [content |-> Content("None"), ttl |-> 0]

\* The alternatives of ParseServiceAction that set a content: the wire
\* variant and the content it gets.
kServiceActions ==
    << <<"messageActionChatCreate", "ActionChatCreate">>,
       <<"messageActionChatEditTitle", "ActionChatEditTitle">>,
       <<"messageActionChatEditPhoto", "ActionChatEditPhoto">>,
       <<"messageActionChatDeletePhoto", "ActionChatDeletePhoto">>,
       <<"messageActionChatAddUser", "ActionChatAddUser">>,
       <<"messageActionChatDeleteUser", "ActionChatDeleteUser">>,
       <<"messageActionChatJoinedByLink", "ActionChatJoinedByLink">>,
       <<"messageActionChannelCreate", "ActionChannelCreate">>,
       <<"messageActionChatMigrateTo", "ActionChatMigrateTo">>,
       <<"messageActionChannelMigrateFrom", "ActionChannelMigrateFrom">>,
       <<"messageActionPinMessage", "ActionPinMessage">>,
       <<"messageActionHistoryClear", "ActionHistoryClear">>,
       <<"messageActionGameScore", "ActionGameScore">>,
       <<"messageActionPaymentSent", "ActionPaymentSent">>,
       <<"messageActionPhoneCall", "ActionPhoneCall">>,
       <<"messageActionScreenshotTaken", "ActionScreenshotTaken">>,
       <<"messageActionCustomAction", "ActionCustomAction">>,
       <<"messageActionBotAllowed", "ActionBotAllowed">>,
       <<"messageActionSecureValuesSent", "ActionSecureValuesSent">> >>

\* Data::ParseServiceAction: messageActionPaymentSentMe,
\* messageActionSecureValuesSentMe and messageActionEmpty set no content.
ParseServiceAction(data, mediaFolder, date) ==
    LET found == {k \in 1..Len(kServiceActions) : kServiceActions[k][1] = data.type}
    IN  IF found = {} THEN [content |-> Content("None")]
        ELSE LET kind == kServiceActions[CHOOSE k \in found : TRUE][2]
             IN  IF kind = "ActionChatEditPhoto"
                 THEN [content |-> [Content(kind) EXCEPT !.photo =
                                      ParsePhoto(data.photo,
                                                 mediaFolder \o <<"Photos/">>
                                                 \o PreparePhotoFileName(date))]]
                 ELSE [content |-> Content(kind)]

\* PeerId(0)
kNoPeer == [hi |-> 0, lo |-> Uint32(0)]

\* Data::ParsePeerId
ParsePeerId(data) ==
    IF data.type = "peerUser" THEN UserPeerId(data.id) ELSE ChatPeerId(data.id)

\* Message(): a default constructed message (the text is left out).
Message ==
    [id |-> 0, date |-> 0, edited |-> 0, fromId |-> 0, forwardedFromId |-> kNoPeer,
     viaBotId |-> 0, replyToMsgId |-> 0,
     media |-> [content |-> Content("None"), ttl |-> 0],
     action |-> [content |-> Content("None")]]

\* The forwardedFromId of a message with a forward header: the channel, else
\* the peer it was saved from, else the sender.
ForwardedFrom(data) ==
    IF Has(data.channel_id) THEN ChatPeerId(data.channel_id[1])
    ELSE IF Has(data.saved_from_peer) THEN ParsePeerId(data.saved_from_peer[1])
    ELSE IF Has(data.from_id) THEN UserPeerId(data.from_id[1])
    ELSE kNoPeer

\* The fields of a regular message that ParseMessage sets before the media.
MessageHeader(data) ==
    [Message EXCEPT
        !.id = data.id, !.date = data.date,
        !.edited = IF Has(data.edit_date) THEN data.edit_date[1] ELSE @,
        !.fromId = IF Has(data.from_id) THEN data.from_id[1] ELSE @,
        !.forwardedFromId = IF Has(data.fwd_from) THEN ForwardedFrom(data.fwd_from[1]) ELSE @,
        !.replyToMsgId = IF Has(data.reply_to_msg_id) THEN data.reply_to_msg_id[1] ELSE @,
        !.viaBotId = IF Has(data.via_bot_id) THEN data.via_bot_id[1] ELSE @]

\* The bot id ParseMessage gives ParseMedia: an int32, the PeerId of the
\* forward narrowed to its lower word.
BotIdOf(result) ==
    IF result.viaBotId # 0 THEN result.viaBotId
    ELSE IF result.forwardedFromId # kNoPeer THEN BarePeerId(result.forwardedFromId)
    ELSE result.fromId

\* ParseMessage putting the photo of a service message into its media too.
ParseMessage_PhotoAsMedia(data, mediaFolder, os) ==
    IF data.type = "message"
    THEN LET result == MessageHeader(data)
         IN  IF Has(data.media)
             THEN [result EXCEPT !.media = ParseMedia(data.media[1], mediaFolder, data.date,
                                                      BotIdOf(result), os)]
             ELSE result
    ELSE IF data.type = "messageService"
    THEN LET action == ParseServiceAction(data.action, mediaFolder, data.date)
         IN  [Message EXCEPT
                !.id = data.id, !.date = data.date,
                !.action = action,
                !.media = IF action.content.kind = "ActionChatEditPhoto"
                          THEN [content |-> [Content("Photo") EXCEPT
                                                !.photo = action.content.photo],
                                ttl |-> 0]
                          ELSE @,
                !.fromId = IF Has(data.from_id) THEN data.from_id[1] ELSE @,
                !.replyToMsgId = IF Has(data.reply_to_msg_id) THEN data.reply_to_msg_id[1] ELSE @]
    ELSE [Message EXCEPT !.id = data.id]

\* Data::ParseMessage, built for the platform os.
ParseMessage(data, mediaFolder, os) ==
    IF data.type = "message"
    THEN LET result == MessageHeader(data)
         IN  IF Has(data.media)
             THEN [result EXCEPT !.media = ParseMedia(data.media[1], mediaFolder, data.date,
                                                      BotIdOf(result), os)]
             ELSE result
    ELSE IF data.type = "messageService"
    THEN [Message EXCEPT
            !.id = data.id, !.date = data.date,
            !.action = ParseServiceAction(data.action, mediaFolder, data.date),
            !.fromId = IF Has(data.from_id) THEN data.from_id[1] ELSE @,
            !.replyToMsgId = IF Has(data.reply_to_msg_id) THEN data.reply_to_msg_id[1] ELSE @]
    ELSE [Message EXCEPT !.id = data.id]

\* The variants of MTPMessageMedia.
WireMediaTypes ==
    {"messageMediaEmpty", "messageMediaPhoto", "messageMediaGeo", "messageMediaContact",
     "messageMediaUnsupported", "messageMediaDocument", "messageMediaWebPage",
     "messageMediaVenue", "messageMediaGame", "messageMediaInvoice", "messageMediaGeoLive"}

\* The variants of MTPMessageAction.
WireActionTypes ==
    {kServiceActions[k][1] : k \in 1..Len(kServiceActions)}
    \cup {"messageActionPaymentSentMe", "messageActionSecureValuesSentMe",
          "messageActionEmpty"}

\* The wire photo of a media or of a service action.
UnitPhoto == [type |-> "photo", id |-> 1, date |-> 3]

\* The wire document of a media: a voice message without a file name.
UnitDocument ==
    [type |-> "document", id |-> 1, date |-> 7, size |-> 1, dc_id |-> 1,
     mime_type |-> kAudioMp3,
     attributes |-> <<[type |-> "documentAttributeAudio", file_name |-> <<>>,
                       flag |-> TRUE]>>]

\* The wire media given to ParseMedia: every variant, with and without its
\* photo or document and its ttl_seconds.
UnitMedias ==
    { [type |-> t, has_photo |-> has, photo |-> UnitPhoto,
       has_document |-> has, document |-> UnitDocument,
       has_ttl_seconds |-> ttl, ttl_seconds |-> 30, period |-> 60] :
        t \in WireMediaTypes, has \in BOOLEAN, ttl \in BOOLEAN }

\* The wire service actions given to ParseServiceAction: every variant.
UnitServiceActions == { [type |-> t, photo |-> UnitPhoto] : t \in WireActionTypes }

\* The forward headers of a wire message.
UnitForwards ==
    { None,
      Some([channel_id |-> Some(3), saved_from_peer |-> None, from_id |-> Some(4)]),
      Some([channel_id |-> None, saved_from_peer |-> Some([type |-> "peerUser", id |-> 5]),
            from_id |-> Some(4)]),
      Some([channel_id |-> None, saved_from_peer |-> None, from_id |-> Some(4)]) }

\* The wire messages given to ParseMessage: regular ones with or without a
\* media, service messages with every action, and the empty message.
UnitMessages ==
    { [type |-> "message", id |-> 1, date |-> 5, edit_date |-> None, from_id |-> Some(2),
       fwd_from |-> fwd, reply_to_msg_id |-> None, via_bot_id |-> via,
       media |-> media, action |-> [type |-> "messageActionEmpty", photo |-> UnitPhoto]] :
        fwd \in UnitForwards, via \in {None, Some(9)},
        media \in {None} \cup {Some(m) : m \in UnitMedias} }
    \cup { [type |-> "messageService", id |-> 1, date |-> 5, edit_date |-> None,
            from_id |-> Some(2), fwd_from |-> None, reply_to_msg_id |-> None,
            via_bot_id |-> None, media |-> None, action |-> action] :
             action \in UnitServiceActions }
    \cup { [type |-> "messageEmpty", id |-> 1, date |-> 0, edit_date |-> None,
            from_id |-> None, fwd_from |-> None, reply_to_msg_id |-> None,
            via_bot_id |-> None, media |-> None,
            action |-> [type |-> "messageActionEmpty", photo |-> UnitPhoto]] }

\* ParseMedia of a wire media of a message dated 5.
MediaStep ==
    /\ events = <<>>
    /\ \E data \in UnitMedias : \E os \in Platforms :
          events' = <<Applied("parseMedia",
                              [data |-> data,
                               media |-> ParseMedia(data, <<"chat/">>, 5, 2, os)])>>
    /\ UNCHANGED <<emojiVars, _settings, _takeoutId, _userpicsProcess, _dialogsProcess,
                   _fileProcess, _fileCache, _mtp, _errors, fatal>>

\* ParseServiceAction of a wire action of a message dated 5.
ActionStep ==
    /\ events = <<>>
    /\ \E data \in UnitServiceActions :
          events' = <<Applied("parseServiceAction",
                              [data |-> data,
                               action |-> ParseServiceAction(data, <<"chat/">>, 5)])>>
    /\ UNCHANGED <<emojiVars, _settings, _takeoutId, _userpicsProcess, _dialogsProcess,
                   _fileProcess, _fileCache, _mtp, _errors, fatal>>

\* ParseMessage of a wire message.
MessageStep ==
    /\ events = <<>>
    /\ \E data \in UnitMessages : \E os \in Platforms :
          events' = <<Applied("parseMessage",
                              [data |-> data,
                               message |-> ParseMessage(data, <<"chat/">>, os)])>>
    /\ UNCHANGED <<emojiVars, _settings, _takeoutId, _userpicsProcess, _dialogsProcess,
                   _fileProcess, _fileCache, _mtp, _errors, fatal>>

\* ---- the text writer (export_output_text.cpp) -------------------------
\* kLineBreak, "\r\n" on Windows and "\n" elsewhere, as one piece of output.
kLineBreak == "kLineBreak"

\* QByteArray::indexOf(ch, from): the 0-based position of the first ch at or
\* after from, -1 when there is none.
IndexOf(value, ch, from) ==
    LET found == {k \in from..(Len(value) - 1) : value[k + 1] = ch}
    IN  IF found = {} THEN -1 ELSE CHOOSE k \in found : \A j \in found : k <= j

\* The do-while loop of SerializeMultiline from the state (offset, newline):
\* "> ", the bytes from offset up to newline and a line break, then on to the
\* next '\n' while one is found.
RECURSIVE SerializeMultilineFrom(_, _, _, _)
SerializeMultilineFrom(appendTo, value, offset, newline) ==
    LET appended == appendTo \o <<"> ">> \o SubSeq(value, offset + 1, newline)
                    \o <<kLineBreak>>
        next == IndexOf(value, "\n", newline + 1)
    IN  IF next > 0 THEN SerializeMultilineFrom(appended, value, newline + 1, next)
        ELSE appended

\* Output::SerializeMultiline
SerializeMultiline(appendTo, value, newline) ==
    SerializeMultilineFrom(appendTo, value, 0, newline)

\* The loop of SerializeKeyValue over the pairs from position k on.
RECURSIVE SerializeKeyValueFrom(_, _, _)
SerializeKeyValueFrom(result, values, k) ==
    IF k > Len(values) THEN result
    ELSE LET key == values[k][1]
             value == values[k][2]
             newline == IndexOf(value, "\n", 0)
         IN  IF value = <<>> THEN SerializeKeyValueFrom(result, values, k + 1)
             ELSE IF newline >= 0
             THEN SerializeKeyValueFrom(
                    SerializeMultiline(result \o key \o <<":", kLineBreak>>, value, newline),
                    values, k + 1)
             ELSE SerializeKeyValueFrom(
                    result \o key \o <<": ">> \o value \o <<kLineBreak>>, values, k + 1)

\* Output::SerializeKeyValue
SerializeKeyValue(values) == SerializeKeyValueFrom(<<>>, values, 1)

\* The values given to SerializeKeyValue: up to three bytes, letters and line
\* breaks.
UnitValues == UNION { [1..n -> {"a", "b", "\n"}] : n \in 0..3 }

\* SerializeKeyValue of one pair, or of a pair followed by a second one.
SerializeStep ==
    /\ events = <<>>
    /\ \E value \in UnitValues : \E more \in {<<>>, << <<<<"l">>, <<"c">>>> >>} :
          events' = <<Applied("serializeKeyValue",
                              [values |-> << <<<<"k">>, value>> >> \o more,
                               result |-> SerializeKeyValue(<< <<<<"k">>, value>> >> \o more)])>>
    /\ UNCHANGED <<emojiVars, _settings, _takeoutId, _userpicsProcess, _dialogsProcess,
                   _fileProcess, _fileCache, _mtp, _errors, fatal>>

\* ---- one transfer, for files of sizes around the chunk size -------------
\* The sizes of the files transferred on their own.
TransferSizes ==
    { 1, kFileChunkSize - 1, kFileChunkSize, kFileChunkSize + 1,
      2 * kFileChunkSize, 2 * kFileChunkSize + 1 }

\* Settings that export photos of every one of these sizes.
TransferSettings ==
    [types |-> {"Personal"}, fullChats |-> {},
     media |-> [types |-> MediaTypes, sizeLimit |-> 4 * kFileChunkSize], path |-> 1]

\* requestUserpics, called with a session open.
TransferRequestStep ==
    /\ events = <<>>
    /\ Commit(RequestUserpics([State EXCEPT !.settings = Some(TransferSettings),
                                            !.takeoutId = Some(1)]))

\* The done handler of requestUserpics: the only photo of the account, a
\* remote file of one of the sizes.
TransferUserpicsStep ==
    /\ Running
    /\ \E r \in _mtp :
          /\ r.kind = "photos_GetUserPhotos.first"
          /\ \E size \in TransferSizes :
                Commit(UserpicsFirstDone(
                         Take(State, r),
                         [type |-> "photos_photos", count |-> 1,
                          photos |-> <<[id |-> 1, file |-> File(Location(1, 1), 0, size)]>>],
                         <<"Success">>))

\* filePartDone of this transfer: the server answers with the chunk at the
\* offset asked for, or with no bytes.
TransferPartStep ==
    /\ Running
    /\ Has(_userpicsProcess)
    /\ \E r \in _mtp :
          /\ r.kind = "upload_GetFile"
          /\ \E bytes \in {0, r.arg[1] \div kFileChunkSize + 1} :
                Commit(FilePartDone(Take(State, r), r.arg[1],
                                    [type |-> "upload_file", bytes |-> bytes],
                                    0, <<"Success">>, "Crash"))

UnitNext ==
    \/ CacheSaveStep
    \/ CacheFindStep
    \/ KeyStep
    \/ PeerStep
    \/ FillStep
    \/ ProcessStep
    \/ AppendStep
    \/ ParseSlicesStep
    \/ DocumentStep
    \/ MediaStep
    \/ ActionStep
    \/ MessageStep
    \/ SerializeStep
    \/ TransferRequestStep
    \/ TransferUserpicsStep
    \/ TransferPartStep

UnitSpec == UnitInit /\ [][UnitNext]_vars

\* ---- the emoji-set manager (chat_helpers/emoji_sets_manager.cpp) --------
\* The variables of the export, which the emoji-set manager leaves alone.
exportVars == <<_settings, _takeoutId, _userpicsProcess, _dialogsProcess,
                _fileProcess, _fileCache, _mtp, _errors>>

\* The ids of the emoji sets (Sets()).
SetIds == {1, 2}

\* Loader::Loader: a Loader object for the set id, loading.  exists (the
\* object has not been deleted) and unpacked (its implementation has fired
\* ready) are bookkeeping.
Loader(id) == [_id |-> id, _state |-> "Loading", exists |-> TRUE, unpacked |-> FALSE]

\* An access to the Loader object l by a thread: which member, and whether
\* the object exists at that moment.
Access(thread, l, what) ==
    Applied("loader.access",
            [thread |-> thread, loader |-> l, exists |-> loaders[l].exists, what |-> what])

\* GlobalLoader = std::move(loader): the unique_qptr deletes the object it
\* held (0 is nullptr).
Deleted(l) == IF l = 0 THEN loaders ELSE [loaders EXCEPT ![l].exists = FALSE]

\* What `this->_id` evaluates to: the field of an existing object; for a
\* deleted object the read is undefined: any id, or a crash.
ReadId(l) ==
    IF loaders[l].exists THEN {[crash |-> FALSE, id |-> loaders[l]._id]}
    ELSE {[crash |-> FALSE, id |-> id] : id \in SetIds} \cup {[crash |-> TRUE, id |-> 0]}

\* Row::load: SetGlobalLoader(make_unique_q<Loader>(...)).  The row of a set
\* can be clicked while it shows Available or Ready, that is while the global
\* loader is not a loader of this set.
RowLoad ==
    /\ Running
    /\ Len(loaders) < MaxLoaders
    /\ \E id \in SetIds :
          /\ IF GlobalLoader = 0 THEN TRUE ELSE loaders[GlobalLoader]._id # id
          /\ loaders' = Append(Deleted(GlobalLoader), Loader(id))
          /\ GlobalLoader' = Len(loaders) + 1
          /\ events' = <<Applied("loader.access",
                                 [thread |-> "main", loader |-> Len(loaders) + 1,
                                  exists |-> TRUE, what |-> "Loader"])>>
    /\ UNCHANGED <<asyncTasks, mainQueue, exportVars, fatal>>

\* The implementation fires ready on the main thread: Loader::unpack reads
\* _id for the folder and hands the unpacking to crl::async; the task
\* captures this.
ImplementationReady ==
    /\ Running
    /\ \E l \in 1..Len(loaders) :
          /\ loaders[l].exists /\ loaders[l]._state = "Loading" /\ ~loaders[l].unpacked
          /\ asyncTasks' = asyncTasks \cup {[this |-> l, folder |-> loaders[l]._id]}
          /\ loaders' = [loaders EXCEPT ![l].unpacked = TRUE]
          /\ events' = <<Access("main", l, "_id")>>
    /\ UNCHANGED <<GlobalLoader, mainQueue, exportVars, fatal>>

\* The implementation fires failed (or could not be created) on the main
\* thread: Loader::fail.
ImplementationFailed ==
    /\ Running
    /\ \E l \in 1..Len(loaders) :
          /\ loaders[l].exists /\ loaders[l]._state = "Loading" /\ ~loaders[l].unpacked
          /\ loaders' = [loaders EXCEPT ![l]._state = "Failed"]
          /\ events' = <<Access("main", l, "fail")>>
    /\ UNCHANGED <<GlobalLoader, asyncTasks, mainQueue, exportVars, fatal>>

\* The task of Loader::unpack runs on a worker thread.  UnpackSet fails: fail
\* is queued on the main thread, guarded by weak.  UnpackSet succeeds:
\* SwitchToSet(_id, ...) evaluates this->_id on the worker thread; SwitchToSet
\* then delivers its result to the guarded callback on the main thread.
AsyncRun ==
    /\ Running
    /\ \E task \in asyncTasks : \E unpacked \in BOOLEAN :
          /\ asyncTasks' = asyncTasks \ {task}
          /\ IF ~unpacked
             THEN /\ mainQueue' = Append(mainQueue, [weak |-> task.this, call |-> "fail",
                                                     success |-> FALSE])
                  /\ events' = <<>>
                  /\ UNCHANGED fatal
             ELSE \E read \in ReadId(task.this) : \E success \in BOOLEAN :
                    /\ events' = <<Access("worker", task.this, "_id")>>
                    /\ IF read.crash
                       THEN /\ fatal' = "unpack: this->_id read after delete"
                            /\ UNCHANGED mainQueue
                       ELSE /\ mainQueue' = Append(mainQueue,
                                                   [weak |-> task.this, call |-> "switched",
                                                    success |-> success])
                            /\ UNCHANGED fatal
    /\ UNCHANGED <<GlobalLoader, loaders, exportVars>>

\* The main thread runs the next queued call if its guard is alive: fail(),
\* or the callback of SwitchToSet, destroy() on success and fail() otherwise.
\* Loader::destroy expects to be the global loader and resets it.
MainRun ==
    /\ Running
    /\ mainQueue # <<>>
    /\ mainQueue' = Tail(mainQueue)
    /\ LET l == Head(mainQueue).weak
       IN  IF ~loaders[l].exists
           THEN /\ events' = <<>>
                /\ UNCHANGED <<GlobalLoader, loaders, fatal>>
           ELSE IF Head(mainQueue).call = "fail" \/ ~Head(mainQueue).success
           THEN /\ loaders' = [loaders EXCEPT ![l]._state = "Failed"]
                /\ events' = <<Access("main", l, "fail")>>
                /\ UNCHANGED <<GlobalLoader, fatal>>
           ELSE IF GlobalLoader # l
           THEN /\ fatal' = "destroy: GlobalLoader == this"
                /\ events' = <<Access("main", l, "destroy")>>
                /\ UNCHANGED <<GlobalLoader, loaders>>
           ELSE /\ loaders' = Deleted(l)
                /\ GlobalLoader' = 0
                /\ events' = <<Access("main", l, "destroy")>>
                /\ UNCHANGED fatal
    /\ UNCHANGED <<asyncTasks, exportVars>>

\* The callback Row::setupHandler gave to SwitchToSet succeeds while the
\* global loader is a loader of the row's set: GlobalLoader->destroy().
RowSwitched ==
    /\ Running
    /\ GlobalLoader # 0
    /\ \E id \in SetIds :
          /\ loaders[GlobalLoader]._id = id
          /\ loaders' = Deleted(GlobalLoader)
          /\ GlobalLoader' = 0
          /\ events' = <<Access("main", GlobalLoader, "id"),
                         Access("main", GlobalLoader, "destroy")>>
    /\ UNCHANGED <<asyncTasks, mainQueue, exportVars, fatal>>

EmojiNext ==
    \/ RowLoad
    \/ ImplementationReady
    \/ ImplementationFailed
    \/ AsyncRun
    \/ MainRun
    \/ RowSwitched

EmojiSpec == Init /\ [][EmojiNext]_vars

\* ---- claims -----------------------------------------------------------
\* The positions of the events named e in the log of the last handler.
EventsOf(e) == {i \in 1..Len(events) : events[i].e = e}

SliceEvents == EventsOf("userpics.handleSlice") \cup EventsOf("dialogs.sliceOne")

CallbackEvents ==
    {"export.done", "simple.done", "userpics.start", "userpics.handleSlice",
     "userpics.finish", "dialogs.start", "dialogs.startOne", "dialogs.sliceOne",
     "dialogs.finishOne", "dialogs.finish"}

MessageRequests == {"messages_GetHistory", "messages_Search"}

\* C1: loadFile is only ever entered while no file process exists: its
\* precondition _fileProcess == nullptr never fails, and every entry into
\* loadFile found no file process.
C1_SingleFileTransfer ==
    /\ fatal # "loadFile: _fileProcess == nullptr"
    /\ \A i \in EventsOf("loadFile") : ~events[i].fp

\* A completed transfer whose done callback started the next transfer.
C1_Witness ==
    \E i \in EventsOf("file.done") : \E j \in EventsOf("loadFile") : i < j

\* C2: a slice is handed to handleSlice / sliceOne only when every file of it
\* has a path or a skip reason, and while no file transfer is active.
C2_SliceResolved ==
    \A i \in SliceEvents : events[i].arg.resolved /\ ~events[i].fp

\* A slice handed over in the handler that completed the download of one of
\* its files.
C2_Witness ==
    \E i \in SliceEvents : \E j \in EventsOf("file.done") :
        j < i /\ events[i].arg.count > 0

\* C3: startOne of a dialog happens only after finishOne of every dialog
\* started before, finishOne only right after the last slice of the dialog was
\* handed over with its files resolved, a message request is outstanding only
\* for the one dialog that is started and not finished, and there is a single
\* record exactly while a dialog is started and not finished.
C3_OneDialogAtATime ==
    /\ \A i \in EventsOf("dialogs.startOne") :
          /\ events[i].arg.started = events[i].arg.finished
          /\ events[i].arg.index = events[i].arg.started
    /\ \A i \in EventsOf("dialogs.finishOne") :
          /\ events[i].arg.lastSlice
          /\ i > 1
          /\ events[i - 1].e = "dialogs.sliceOne"
          /\ events[i - 1].arg.resolved
          /\ ~events[i].fp
    /\ Has(_dialogsProcess) =>
          /\ _dialogsProcess[1].started - _dialogsProcess[1].finished
                = (IF Has(_dialogsProcess[1].single) THEN 1 ELSE 0)
    /\ \A r \in _mtp : r.kind \in MessageRequests =>
          /\ Has(_dialogsProcess)
          /\ Has(_dialogsProcess[1].single)
          /\ ~Has(_fileProcess)

\* The second dialog of the list is started in the handler that finished the
\* first one.
C3_Witness ==
    \E i \in EventsOf("dialogs.finishOne") : \E j \in EventsOf("dialogs.startOne") :
        /\ i < j
        /\ events[j].arg.index = 1
        /\ Has(_dialogsProcess)
        /\ Len(_dialogsProcess[1].info) >= 2

\* C4: every dialog received on any page, the final one included, whose type
\* is enabled is in the list given to the start callback.
C4_AllDialogsListed ==
    \A i \in EventsOf("dialogs.start") : events[i].arg.count = events[i].arg.passed

\* C5: requestNextDialog never reads info.list at an index >= its size, and
\* finish is called after exactly one startOne and one finishOne per entry.
C5_ExactlyOncePerDialog ==
    /\ \A i \in EventsOf("dialogs.read") : events[i].arg.index < events[i].arg.count
    /\ \A i \in EventsOf("dialogs.finish") :
          /\ events[i].arg.started = events[i].arg.count
          /\ events[i].arg.finished = events[i].arg.count

\* The chunk tokens 1, 2, ..., n: the chunks of a file in offset order.
InOffsetOrder(file) == \A i \in 1..Len(file) : file[i] = i

C7_CompletionCases ==
    /\ \A i \in EventsOf("file.done") :
          \/ /\ events[i].arg.size > 0
             /\ events[i].arg.offset >= events[i].arg.size
             /\ events[i].arg.queue = 0
             /\ ~events[i].arg.empty
          \/ /\ events[i].arg.size = 0
             /\ events[i].arg.empty
    /\ \A i \in EventsOf("error") :
          events[i].arg = "Empty bytes received in file part."
             => /\ EventsOf("file.done") = {}
                /\ Has(_fileProcess)
                /\ _fileProcess[1].size > 0

\* A transfer of known size completes.
C7_Witness ==
    \E i \in EventsOf("file.done") :
        events[i].arg.size > 0 /\ Len(events[i].arg.file) >= 2

\* C8: when a transfer completes the path is saved in the cache for the
\* location, then done is called once with that path, the file process being
\* already released.
C8_SaveThenDone ==
    /\ Cardinality(EventsOf("file.done")) <= 1
    /\ \A i \in EventsOf("file.done") :
          /\ i > 1
          /\ events[i - 1].e = "save"
          /\ events[i - 1].arg = events[i].arg.path
          /\ events[i].arg.cached = Some(events[i].arg.path)
          /\ ~events[i].fp

\* A transfer of unknown size completes and its callback hands the slice over.
C8_Witness ==
    \E i \in EventsOf("file.done") : \E j \in SliceEvents :
        i < j /\ events[i].arg.empty

CdnError == "Cdn redirect is not supported."

\* C9: the handler of a CDN redirect fires one error and does nothing else;
\* after it no request is outstanding, nothing more happens, the transfer is
\* not completed and its location is not in the cache.
C9_CdnRedirectHalts ==
    CdnError \in _errors =>
        /\ events = <<[e |-> "error", arg |-> CdnError, fp |-> TRUE]>>
        /\ _mtp = {}
        /\ Has(_fileProcess)
        /\ CacheFind(_fileCache, _fileProcess[1].location) = None

\* A CDN redirect arrived for the second chunk of a file.
C9_Witness ==
    /\ CdnError \in _errors
    /\ Has(_fileProcess)
    /\ Len(_fileProcess[1].file) = 1

\* C10: once an error is fired no request is sent and no callback is called:
\* not later in the same handler, and not by a later handler.
C10_ErrorHalts ==
    /\ \A i \in EventsOf("error") : \A j \in 1..Len(events) :
          j > i => events[j].e \notin {"request"} \cup CallbackEvents
    /\ (_errors # {} /\ EventsOf("error") = {}) =>
          \A j \in 1..Len(events) : events[j].e \notin {"request"} \cup CallbackEvents

InitTakeout == "account_InitTakeoutSession"

\* C11: the userpics process and the dialogs process never exist at the same
\* time: a call to requestUserpics or requestDialogs made while either of them
\* is active fails a precondition and starts nothing.
C11_OneProcessAtATime ==
    ~(Has(_userpicsProcess) /\ Has(_dialogsProcess))

\* C12: the queue of an active file process never holds more than
\* kFileRequestsCount chunk requests.
C12_RequestsBounded ==
    Has(_fileProcess) => Len(_fileProcess[1].requests) <= kFileRequestsCount

\* A transfer of unknown size has written a chunk and waits for the next one.
C12_Witness ==
    /\ Has(_fileProcess)
    /\ _fileProcess[1].size = 0
    /\ _fileProcess[1].file # <<>>
    /\ Len(_fileProcess[1].requests) = 1

\* C17: every outstanding request other than the session-opening one was sent
\* while a takeout id was held and is wrapped with that id; while no id is
\* held nothing but the session-opening request has been sent, an attempt
\* ending in a failed precondition.
C17_RequestsCarryTakeout ==
    /\ \A r \in _mtp :
          r.kind # InitTakeout => Has(_takeoutId) /\ r.takeout = _takeoutId
    /\ \A i \in EventsOf("request") :
          events[i].arg # InitTakeout => Has(_takeoutId)
    /\ fatal \in {"mainRequest: _takeoutId.has_value()", "fileRequest: _takeoutId.has_value()"}
          => ~Has(_takeoutId) /\ EventsOf("request") = {}

\* A request* method was called while the session-opening request was still
\* outstanding, and failed its precondition.
C17_Witness ==
    /\ fatal = "mainRequest: _takeoutId.has_value()"
    /\ \E r \in _mtp : r.kind = InitTakeout
    /\ ~Has(_takeoutId)

\* The locations saved so far are pairwise distinct.
DistinctSaves ==
    \A i, j \in 1..Len(Saves) : i # j => Saves[i].arg.location # Saves[j].arg.location

\* C13: after saves of distinct locations the cache finds exactly the last
\* limit of them, each with its path: after limit + 1 saves the first one is
\* gone and the other limit are found, whatever finds were made in between.
C13_FifoEviction ==
    DistinctSaves =>
        \A i \in 1..Len(Saves) :
            CacheFind(_fileCache, Saves[i].arg.location)
                = (IF i > Len(Saves) - _fileCache.limit
                   THEN Some(Saves[i].arg.path) ELSE None)

\* limit + 1 distinct locations were saved to a cache of limit 2, and the
\* first of them was looked up.
C13_Witness ==
    /\ DistinctSaves
    /\ _fileCache.limit = 2
    /\ Len(Saves) = 3
    /\ Len(events) = 4
    /\ events[4].e = "cache.find"
    /\ events[4].arg.location = Saves[1].arg.location
    /\ events[4].arg.result = None

\* C14: the cache never maps more than limit keys and its eviction queue never
\* holds more than limit keys.
C14_CacheBounded ==
    /\ Cardinality(DOMAIN _fileCache.map) <= _fileCache.limit
    /\ Len(_fileCache.list) <= _fileCache.limit

\* More saves than the limit, one location saved twice.
C14_Witness ==
    /\ _fileCache.limit = 2
    /\ Len(Saves) = 3
    /\ ~DistinctSaves
    /\ Len(_fileCache.list) = 2

\* The data-center ids that fit below the variant tag.
FitsBelowTag(location) == location.dcId < kVariantShift

\* C15, for data-center ids below 1 << 24: the key of a location differs from
\* the key of every location of another variant.
C15_VariantsDistinctSmallDc ==
    \A i \in EventsOf("key") : \A other \in KeyInputs :
        (/\ other.variant # events[i].arg.location.variant
         /\ FitsBelowTag(other)
         /\ FitsBelowTag(events[i].arg.location))
            => ComputeLocationKey(other) # events[i].arg.key

\* The key of a location in the largest data center below 1 << 24 is computed.
C15_Witness ==
    \E i \in EventsOf("key") :
        /\ events[i].arg.location.dcId = kVariantShift - 1
        /\ events[i].arg.location.variant = "secure"

\* C15 as stated, for every data-center id: the key of a location differs from
\* the key of every location of another variant.
C15_VariantsDistinct ==
    \A i \in EventsOf("key") : \A other \in KeyInputs :
        other.variant # events[i].arg.location.variant
            => ComputeLocationKey(other) # events[i].arg.key

\* C16: BarePeerId gives back the id UserPeerId / ChatPeerId was given, and no
\* user peer id equals a chat peer id.
C16_PeerIdRoundTrip ==
    \A i \in EventsOf("peer") :
        /\ events[i].arg.bare = events[i].arg.id
        /\ \A y \in PeerInputs :
              events[i].arg.peer # (IF events[i].arg.kind = "user"
                                    THEN ChatPeerId(y) ELSE UserPeerId(y))

\* A negative user id went through UserPeerId and BarePeerId.
C16_Witness ==
    \E i \in EventsOf("peer") :
        /\ events[i].arg.kind = "user"
        /\ events[i].arg.id = -1
        /\ events[i].arg.peer.lo = [hi |-> 65535, lo |-> 65535]

\* The number a sequence of digit characters stands for.
RECURSIVE ValueOf(_)
ValueOf(chars) ==
    IF chars = <<>> THEN 0
    ELSE 10 * ValueOf(SubSeq(chars, 1, Len(chars) - 1))
         + (CHOOSE d \in 0..9 : Digits(d) = <<Last(chars)>>)

\* The length of the decimal form of a natural number.
RECURSIVE DecimalLength(_)
DecimalLength(n) == IF n < 10 THEN 1 ELSE 1 + DecimalLength(n \div 10)

Max(a, b) == IF a >= b THEN a ELSE b

\* The number in the path 'Chats/chat_<k>/'.
FolderNumber(path) == SubSeq(path, 2, Len(path) - 1)

\* C19: the i-th of N dialogs gets the path 'Chats/chat_<k>/' where k is i
\* written in decimal and filled with zeros on the left up to the length of
\* N - 1; the paths are pairwise distinct.
C19_DialogFolderNumbers ==
    \A e \in EventsOf("fillDialogsPaths") :
        LET list == events[e].arg
            N == Len(list)
        IN  /\ \A i \in 1..N :
                  LET path == list[i].relativePath
                      k == FolderNumber(path)
                  IN  /\ Len(path) >= 3
                      /\ path[1] = "Chats/chat_"
                      /\ Last(path) = "/"
                      /\ \A c \in 1..Len(k) : k[c] \in {Digits(d)[1] : d \in 0..9}
                      /\ ValueOf(k) = i
                      /\ Len(k) = Max(DecimalLength(i), DecimalLength(N - 1))
            /\ \A i, j \in 1..N : i # j => list[i].relativePath # list[j].relativePath

\* Eleven dialogs: the first folder number is filled to two digits.
C19_Witness ==
    \E e \in EventsOf("fillDialogsPaths") :
        /\ Len(events[e].arg) = 11
        /\ events[e].arg[1].relativePath = <<"Chats/chat_", "0", "1", "/">>

\* C20: a file of a message is downloaded only if the media type of the
\* message is enabled in settings.media.types: no transfer is ever active for
\* a message whose media type is disabled.
C20_DisabledTypeNotLoaded ==
    (/\ Has(_fileProcess)
     /\ _fileProcess[1].done = "loadMessageFileDone"
     /\ CurrentIndex \in 1..Len(CurrentList))
        => CurrentList[CurrentIndex].mediaType \in _settings[1].media.types

PhotoRequests == {"photos_GetUserPhotos.first", "photos_GetUserPhotos"}

DialogCallbacks ==
    {"dialogs.start", "dialogs.startOne", "dialogs.sliceOne", "dialogs.finishOne",
     "dialogs.finish"}

C21_ProcessNeverStuck ==
    (_errors = {} /\ (Has(_userpicsProcess) \/ Has(_dialogsProcess)))
        => (Running /\ _mtp # {})

PageRequests == PhotoRequests \cup MessageRequests \cup {"messages_GetDialogs"}

\* C22: no page request is outstanding while a file transfer is active or a
\* slice is held, at most one page request is outstanding, and a request for
\* a next page of userpics or messages is sent right after the slice before it
\* was handed to its callback with every file resolved and no transfer active
\* (for messages: or right after startOne, the first page of a dialog).
C22_PageAfterSlice ==
    /\ Cardinality({r \in _mtp : r.kind \in PageRequests}) <= 1
    /\ \A r \in _mtp : r.kind \in PageRequests =>
          /\ ~Has(_fileProcess)
          /\ Has(_userpicsProcess) => ~Has(_userpicsProcess[1].slice)
          /\ (Has(_dialogsProcess) /\ Has(_dialogsProcess[1].single))
                => ~Has(_dialogsProcess[1].single[1].slice)
    /\ \A i \in EventsOf("request") :
          /\ events[i].arg \in PageRequests => ~events[i].fp
          /\ events[i].arg = "photos_GetUserPhotos" =>
                /\ i > 1
                /\ events[i - 1].e = "userpics.handleSlice"
                /\ events[i - 1].arg.resolved
          /\ events[i].arg \in MessageRequests =>
                /\ i > 1
                /\ events[i - 1].e \in {"dialogs.sliceOne", "dialogs.startOne"}
                /\ events[i - 1].e = "dialogs.sliceOne" => events[i - 1].arg.resolved

\* The handler that completed the download of a file of a messages slice
\* handed the slice over and asked for the next page.
C22_Witness ==
    \E i \in EventsOf("request") : \E j \in EventsOf("file.done") :
        /\ j < i
        /\ events[i].arg \in MessageRequests
        /\ events[i - 1].e = "dialogs.sliceOne"
        /\ events[i - 1].arg.count > 0
        /\ ~Has(_fileProcess)

\* C23: a slice handed to sliceOne is in ascending order of ids; the cursor
\* after it is the id of its last element plus 1, past every element of it,
\* and the cursor before it when it is empty; the first request of a dialog
\* carries the cursor 1, and an outstanding message request carries the peer
\* and the current cursor of the dialog being exported.
C23_MessageCursor ==
    /\ \A i \in EventsOf("dialogs.sliceOne") :
          LET a == events[i].arg
          IN  /\ \A k \in 1..(Len(a.ids) - 1) : a.ids[k] < a.ids[k + 1]
              /\ \A k \in 1..Len(a.ids) : a.ids[k] < a.offsetId /\ a.ids[k] >= a.before
              /\ a.offsetId = (IF a.ids # <<>> THEN Last(a.ids) + 1 ELSE a.before)
    /\ \A r \in _mtp : r.kind \in MessageRequests =>
          /\ Has(_dialogsProcess)
          /\ Has(_dialogsProcess[1].single)
          /\ r.arg = <<_dialogsProcess[1].single[1].info.input,
                       _dialogsProcess[1].single[1].offsetId>>
          /\ (\E i \in EventsOf("dialogs.startOne") : i = Len(events) - 1)
                => r.arg[2] = 1

\* The second dialog is started with the cursor 1 in the handler that handed
\* over the last slice of the first dialog, which held two messages.
C23_Witness ==
    \E i \in EventsOf("dialogs.sliceOne") : \E j \in EventsOf("dialogs.startOne") :
        /\ i < j
        /\ Len(events[i].arg.ids) = 2
        /\ events[i].arg.offsetId = 3
        /\ events[j].arg.index = 1
        /\ \E r \in _mtp : r.kind \in MessageRequests /\ r.arg[2] = 1

\* C24: writing the inline content of a file never goes through an absent
\* _fileProcess: the program is never terminated by the dereference of the
\* null _fileProcess in writePreloadedFile.
C24_InlineUsesPreparedProcess ==
    fatal # "writePreloadedFile: null _fileProcess"

\* What a handler logs when it prepares a destination file, writes to one,
\* saves to the cache, starts a transfer, sends a request or fires an error.
FileWork == {"prepareFileProcess", "loadFile", "request", "writeBlock", "save", "error"}

\* C25: processFileLoad of a file whose location the cache holds returns
\* ready with the cached path as relativePath and no skip reason, leaves the
\* cache as it was, and does none of: prepare a destination file, write, save,
\* start a transfer, send a request.
C25_CachedResolved ==
    \A i \in EventsOf("processFileLoad") :
        Has(events[i].arg.cached) =>
            /\ events[i].arg.ready
            /\ events[i].arg.relativePath = events[i].arg.cached[1]
            /\ events[i].arg.skipReason = "None"
            /\ events[i].arg.cacheSame
            /\ i > 1 => events[i - 1].e \notin FileWork

\* A file without inline content is found in the cache after the download of
\* a file of the same location.
C25_Witness ==
    \E i \in EventsOf("processFileLoad") :
        /\ Has(events[i].arg.cached)
        /\ events[i].arg.content = 0
        /\ events[i].arg.size > kFileChunkSize
        /\ \E j \in EventsOf("file.done") : j < i

\* C26: a file that has a location, no inline content and no cache entry, of
\* an enabled media type, gets the skip reason FileSize exactly when its size
\* is greater than settings.media.sizeLimit, and is downloaded when its size
\* is not greater than the limit.
C26_SkippedOnlyAboveLimit ==
    \A i \in EventsOf("processFileLoad") :
        LET a == events[i].arg
        IN  (/\ a.location.dcId # 0
             /\ a.content = 0
             /\ ~Has(a.cached)
             /\ a.type \in a.types)
                => /\ (a.skipReason = "FileSize") <=> (a.size > a.sizeLimit)
                   /\ a.size <= a.sizeLimit => (~a.ready /\ a.skipReason = "None")

\* C27: while the media types of the settings are empty no file content is
\* written, no destination file is prepared, no transfer is started, no chunk
\* request is outstanding, and every file with a location that processFileLoad
\* has looked at is left with a skip reason and no path.
C27_MediaDisabledNothingWritten ==
    (Has(_settings) /\ _settings[1].media.types = {}) =>
        /\ EventsOf("writeBlock") = {}
        /\ EventsOf("prepareFileProcess") = {}
        /\ EventsOf("loadFile") = {}
        /\ ~Has(_fileProcess)
        /\ \A r \in _mtp : r.kind # "upload_GetFile"
        /\ \A i \in EventsOf("processFileLoad") :
              events[i].arg.location.dcId # 0 =>
                  /\ events[i].arg.skipReason # "None"
                  /\ events[i].arg.relativePath = 0

\* The dialogs of a page whose type is in the set of enabled types, in the
\* order of the page.
KeptBy(page, enabled) == SelectSeq(page, LAMBDA d : d.type \in enabled)

C29_SameDigitWidth ==
    \A e \in EventsOf("fillDialogsPaths") :
        LET list == events[e].arg
        IN  \A i \in 1..Len(list) :
                Len(FolderNumber(list[i].relativePath)) = DecimalLength(Len(list))

\* C30: an outstanding message request is messages_Search exactly when the
\* type of the dialog being exported is not set in settings.fullChats, and
\* messages_GetHistory when it is; all the requests sent for one dialog are of
\* one kind.
C30_SearchUnlessFullChat ==
    /\ \A r \in _mtp : r.kind \in MessageRequests =>
          /\ Has(_dialogsProcess)
          /\ Has(_dialogsProcess[1].single)
          /\ (r.kind = "messages_Search")
                <=> (_dialogsProcess[1].single[1].info.type \notin _settings[1].fullChats)
          /\ (r.kind = "messages_GetHistory")
                <=> (_dialogsProcess[1].single[1].info.type \in _settings[1].fullChats)
    /\ (Has(_dialogsProcess) /\ Has(_dialogsProcess[1].single)) =>
          Cardinality(_dialogsProcess[1].single[1].requested) <= 1

\* The second page of a private group, whose full-chat flag is set, is
\* requested with messages_GetHistory while personal chats are not full.
C30_Witness ==
    /\ Has(_dialogsProcess)
    /\ Has(_dialogsProcess[1].single)
    /\ _dialogsProcess[1].single[1].info.type = "PrivateGroup"
    /\ _dialogsProcess[1].single[1].offsetId > 1
    /\ "Personal" \notin _settings[1].fullChats
    /\ \E r \in _mtp : r.kind = "messages_GetHistory" /\ r.arg[2] > 1

\* ---- C31 --------------------------------------------------------------
\* The wire list reversed, element by element, with the same length.
IsReverseOf(list, wire) ==
    /\ Len(list) = Len(wire)
    /\ \A i \in 1..Len(wire) : list[i] = wire[Len(wire) + 1 - i]

AttributesOf(data, type) ==
    {k \in 1..Len(data.attributes) : data.attributes[k].type = type}

\* The names of the filename attributes of a wire document.
FileNames(data) ==
    {data.attributes[k].file_name : k \in AttributesOf(data, "documentAttributeFilename")}

\* The wire document has an audio attribute with the voice flag.
IsVoice(data) ==
    \E k \in AttributesOf(data, "documentAttributeAudio") : data.attributes[k].flag

\* The MIME type is audio/mp3 in any mix of cases.
IsMp3(mime) ==
    /\ Len(mime) = Len(kAudioMp3)
    /\ \A j \in 1..Len(mime) : mime[j] = kAudioMp3[j] \/ ToLowerChar(mime[j]) = kAudioMp3[j]

NamePart(a) ==
    SubSeq(a.document.file.suggestedPath, Len(a.folder) + 1,
           Len(a.document.file.suggestedPath))

\* The characters a build for the platform replaces.
ControlSet(os) == {Controls(os)[k] : k \in 1..Len(Controls(os))}

\* The name with every replaced character turned into '_'.
Underscored(name, os) ==
    [j \in 1..Len(name) |-> IF name[j] \in ControlSet(os) THEN "_" ELSE name[j]]

\* A Windows build masks the name: trimmed and in lower case it ends with
\* .lnk or .scf.
Masked(name, os) ==
    /\ os = "Q_OS_WIN"
    /\ \E extension \in {<<".", "l", "n", "k">>, <<".", "s", "c", "f">>} :
          EndsWith(ToLower(Trimmed(Underscored(name, os))), extension)

\* C35 as amended: the file-name part of a document's suggestedPath holds
\* none of the eight bidi controls and none of the platform's reserved path
\* characters; it is the source name with each of them replaced by '_', of the
\* same length, followed on Windows by .download when the name, trimmed and
\* in lower case, ends with .lnk or .scf; cleaning twice gives what cleaning
\* once gives.
C35_CleanedOrMasked ==
    \A i \in EventsOf("parseDocument") :
        LET a == events[i].arg
            part == NamePart(a)
        IN  a.data.type = "document" =>
              /\ \A j \in 1..Len(part) : part[j] \notin ControlSet(a.os)
              /\ part = Underscored(a.name, a.os)
                        \o (IF Masked(a.name, a.os)
                            THEN <<".", "d", "o", "w", "n", "l", "o", "a", "d">>
                            ELSE <<>>)
              /\ part = a.once
              /\ a.twice = a.once

\* A name with two right-to-left overrides has been cleaned on a platform
\* with reserved characters.
C35_Witness ==
    \E i \in EventsOf("parseDocument") :
        /\ events[i].arg.os = "Q_OS_LINUX"
        /\ events[i].arg.name = <<"a", "U+202E", "b", "U+202E">>
        /\ NamePart(events[i].arg) = <<"a", "_", "b", "_">>

\* C35 as stated: the file-name part holds none of the replaced characters,
\* each occurrence in the source name is replaced by '_', the length of the
\* name is preserved, and cleaning twice gives what cleaning once gives.
C35_CleanedSameLength ==
    \A i \in EventsOf("parseDocument") :
        LET a == events[i].arg
            part == NamePart(a)
        IN  a.data.type = "document" =>
              /\ \A j \in 1..Len(part) : part[j] \notin ControlSet(a.os)
              /\ Len(part) = Len(a.name)
              /\ part = Underscored(a.name, a.os)
              /\ part = a.once
              /\ a.twice = a.once

\* ---- C32 --------------------------------------------------------------
\* The content of a Media or a ServiceAction is the empty one.
IsEmptyContent(content) == content.kind = "None"

\* C32: of a parsed message the media and the service action are never both
\* populated: a service message has an empty media, a regular message an
\* empty action, an empty message neither.
C32_MediaOrAction ==
    \A i \in EventsOf("parseMessage") :
        LET data == events[i].arg.data
            message == events[i].arg.message
        IN  /\ IsEmptyContent(message.media.content) \/ IsEmptyContent(message.action.content)
            /\ data.type = "messageService" => IsEmptyContent(message.media.content)
            /\ data.type = "message" => IsEmptyContent(message.action.content)
            /\ data.type = "messageEmpty" =>
                  /\ IsEmptyContent(message.media.content)
                  /\ IsEmptyContent(message.action.content)

\* A service message that changes the chat photo has been parsed: its action
\* carries the photo.
C32_Witness ==
    \E i \in EventsOf("parseMessage") :
        /\ events[i].arg.data.type = "messageService"
        /\ events[i].arg.message.action.content.kind = "ActionChatEditPhoto"
        /\ events[i].arg.message.action.content.photo.id = 1

\* ---- C33 --------------------------------------------------------------
\* The wire variants the parsers leave without a content on purpose: a web
\* page, and the two actions that are not sent to a user's inbox.
kIgnoredVariants ==
    {"messageMediaWebPage", "messageActionPaymentSentMe", "messageActionSecureValuesSentMe"}

\* The wire variants that stand for "nothing".
kEmptyVariants == {"messageMediaEmpty", "messageActionEmpty"}

\* The content a wire media gets when it is not dropped.
MediaKinds ==
    [messageMediaPhoto |-> "Photo", messageMediaGeo |-> "GeoPoint",
     messageMediaContact |-> "ContactInfo", messageMediaUnsupported |-> "UnsupportedMedia",
     messageMediaDocument |-> "Document", messageMediaVenue |-> "Venue",
     messageMediaGame |-> "Game", messageMediaInvoice |-> "Invoice",
     messageMediaGeoLive |-> "GeoPoint"]

\* C33 as amended: ParseMedia maps every non-empty wire media variant other
\* than a web page, and ParseServiceAction every non-empty wire action
\* variant other than messageActionPaymentSentMe and
\* messageActionSecureValuesSentMe, to its specific record (an unsupported
\* media to the unsupported marker), never to the empty content; those three
\* variants get the empty content.
C33_MappedUnlessIgnored ==
    /\ \A i \in EventsOf("parseMedia") :
          LET type == events[i].arg.data.type
              kind == events[i].arg.media.content.kind
          IN  /\ type \notin kEmptyVariants \cup kIgnoredVariants => kind = MediaKinds[type]
              /\ type \in kIgnoredVariants => kind = "None"
    /\ \A i \in EventsOf("parseServiceAction") :
          LET type == events[i].arg.data.type
              kind == events[i].arg.action.content.kind
          IN  /\ type \notin kEmptyVariants \cup kIgnoredVariants =>
                    \E k \in 1..Len(kServiceActions) :
                        kServiceActions[k] = <<type, kind>>
              /\ type \in kIgnoredVariants => kind = "None"

\* An invoice has been parsed.
C33_Witness ==
    \E i \in EventsOf("parseMedia") :
        /\ events[i].arg.data.type = "messageMediaInvoice"
        /\ events[i].arg.media.content.kind = "Invoice"

\* C33 as stated: every non-empty wire media variant and every non-empty wire
\* service action variant is mapped to a record or to the unsupported marker,
\* never to the empty content.
C33_NeverDropped ==
    /\ \A i \in EventsOf("parseMedia") :
          events[i].arg.data.type \notin kEmptyVariants =>
              ~IsEmptyContent(events[i].arg.media.content)
    /\ \A i \in EventsOf("parseServiceAction") :
          events[i].arg.data.type \notin kEmptyVariants =>
              ~IsEmptyContent(events[i].arg.action.content)

\* ---- C40 --------------------------------------------------------------
\* The lines of a value: the pieces between its line breaks, the one after
\* the last line break included.
RECURSIVE LinesOf(_)
LinesOf(value) ==
    LET newline == IndexOf(value, "\n", 0)
    IN  IF newline < 0 THEN <<value>>
        ELSE <<SubSeq(value, 1, newline)>> \o LinesOf(SubSeq(value, newline + 2, Len(value)))

\* Each line as a line of its own that starts with "> ".
RECURSIVE Quoted(_)
Quoted(lines) ==
    IF lines = <<>> THEN <<>>
    ELSE <<"> ">> \o Head(lines) \o <<kLineBreak>> \o Quoted(Tail(lines))

\* C40: SerializeKeyValue of a value with line breaks emits, after the line
\* "key:", every line of the value in order as a line of its own that starts
\* with "> ", the text after the last line break included.
C40_EveryLineEmitted ==
    \A i \in EventsOf("serializeKeyValue") :
        LET values == events[i].arg.values
            value == values[1][2]
        IN  (Len(values) = 1 /\ IndexOf(value, "\n", 0) >= 0) =>
                events[i].arg.result
                    = values[1][1] \o <<":", kLineBreak>> \o Quoted(LinesOf(value))

\* ---- C37 --------------------------------------------------------------
\* The last handler was a save.
LastIsSave == events # <<>> /\ events[Len(events)].e = "cache.save"

LastSave == Saves[Len(Saves)]

\* The save made limit saves before the last one was of the same key: its
\* key is the oldest of the full queue when the last save pushes its own.
ResavedAtFront ==
    /\ Len(Saves) > _fileCache.limit
    /\ ComputeLocationKey(Saves[Len(Saves) - _fileCache.limit].arg.location)
         = ComputeLocationKey(LastSave.arg.location)

\* C37 (amended): right after save(L, P) on a cache of limit >= 1, find(L)
\* returns P whatever was saved before, earlier saves of L included, except
\* when the save made limit saves earlier was of L too: then the save evicts
\* L's own key and find(L) returns nothing.
C37_FindAfterSaveUnlessEvicted ==
    (LastIsSave /\ _fileCache.limit >= 1) =>
        CacheFind(_fileCache, LastSave.arg.location)
            = (IF ResavedAtFront THEN None ELSE Some(LastSave.arg.path))

\* A location saved twice in a row to a cache of limit 2 that was full: the
\* second save is found with its own path.
C37_Witness ==
    /\ LastIsSave
    /\ _fileCache.limit = 2
    /\ Len(Saves) = 3
    /\ Saves[2].arg.location = Saves[3].arg.location
    /\ Saves[1].arg.location # Saves[3].arg.location
    /\ CacheFind(_fileCache, LastSave.arg.location) = Some(3)

\* C37 as stated: right after save(L, P) on a cache of limit >= 1, find(L)
\* returns P for every prior sequence of saves.
C37_FindAfterSave ==
    (LastIsSave /\ _fileCache.limit >= 1) =>
        CacheFind(_fileCache, LastSave.arg.location) = Some(LastSave.arg.path)

\* ---- C38 --------------------------------------------------------------
\* The chunk requests that are outstanding.
ChunksInFlight == {r \in _mtp : r.kind = "upload_GetFile"}

\* The chunk requests sent by the last handler.
ChunkRequestEvents == {i \in EventsOf("request") : events[i].arg = "upload_GetFile"}

\* C38: at most one chunk request is in flight at any time and the queue of
\* the file process holds at most one placeholder, the one of the request in
\* flight; a handler sends at most one chunk request, either right after
\* loadFile created the process or right after the write of an arrived chunk
\* emptied the queue.
C38_OneChunkInFlight ==
    /\ Cardinality(ChunksInFlight) <= 1
    /\ Has(_fileProcess) => Len(_fileProcess[1].requests) <= 1
    /\ \A r \in ChunksInFlight :
          /\ Has(_fileProcess)
          /\ Len(_fileProcess[1].requests) = 1
          /\ _fileProcess[1].requests[1] = [offset |-> r.arg[1], bytes |-> 0]
    /\ Cardinality(ChunkRequestEvents) <= 1
    /\ \A i \in ChunkRequestEvents :
          i > 1 /\ events[i - 1].e \in {"loadFile", "writeBlock"}

\* The second chunk of a file of known size is in flight after the first one
\* was written.
C38_Witness ==
    /\ Has(_fileProcess)
    /\ _fileProcess[1].size > kFileChunkSize
    /\ _fileProcess[1].file # <<>>
    /\ Cardinality(ChunksInFlight) = 1
    /\ \E i \in ChunkRequestEvents : i > 1 /\ events[i - 1].e = "writeBlock"

\* ---- C39 --------------------------------------------------------------
\* The number of chunks of a file of size bytes.
ChunksOf(size) == (size + kFileChunkSize - 1) \div kFileChunkSize

\* The chunks at the offsets 0, C, 2C, ... in this order, n of them; the
\* server's chunk at offset k * C is the chunk number k + 1.
FirstChunks(n) == [k \in 1..n |-> k]

\* C39: while a file of known size S > 0 is transferred, the chunks received
\* so far are those of the offsets 0, C, 2C, ... in increasing order, each
\* once, the request in flight (there is at most one) asks for the next of
\* these offsets, which is below S, and the transfer completes with exactly
\* the ceil(S / C) chunks at the offsets below S: none was asked for at an
\* offset >= S.
C39_ChunkOffsets ==
    /\ (Has(_fileProcess) /\ _fileProcess[1].size > 0) =>
          /\ _fileProcess[1].file = FirstChunks(Len(_fileProcess[1].file))
          /\ _fileProcess[1].offset
                = (Len(_fileProcess[1].file) + Len(_fileProcess[1].requests)) * kFileChunkSize
          /\ \A r \in ChunksInFlight :
                /\ r.arg[1] = Len(_fileProcess[1].file) * kFileChunkSize
                /\ r.arg[1] < _fileProcess[1].size
    /\ \A i \in EventsOf("file.done") :
          events[i].arg.size > 0 =>
              /\ events[i].arg.file = FirstChunks(ChunksOf(events[i].arg.size))
              /\ events[i].arg.offset = ChunksOf(events[i].arg.size) * kFileChunkSize
              /\ events[i].arg.queue = 0

\* A file of two chunks and a byte has completed with three chunks.
C39_Witness ==
    \E i \in EventsOf("file.done") :
        /\ events[i].arg.size = 2 * kFileChunkSize + 1
        /\ Len(events[i].arg.file) = 3

\* ---- C36 --------------------------------------------------------------
\* C36: every access to a Loader object made by the unpack step and by the
\* calls around it is made on the main thread and while the object exists.
C36_LoaderOnMainThreadOnly ==
    \A i \in EventsOf("loader.access") :
        events[i].arg.thread = "main" /\ events[i].arg.exists

====
